---- MODULE Spec2Model ----
(***************************************************************************)
(* A model of the Google-Maps-Scraper core (src/maps_scraper.py and        *)
(* src/scraper.py): the ProxyPool rotation under asyncio tasks, the proxy  *)
(* line parser and URL builder, and the extraction passes.                 *)
(*                                                                         *)
(* Every subsystem has its own specification (SpecPool, SpecKey, ...).     *)
(* All specifications share the module's variables; a specification       *)
(* leaves the variables of the other subsystems at their idle value.       *)
(***************************************************************************)
EXTENDS Integers, Sequences, FiniteSets, TLC

VARIABLES
    \* ---- ProxyPool and the tasks that call next_proxy
    poolSize,     \* len(self._proxies)
    idx,          \* self._idx, the cursor
    lockHolder,   \* the task inside `async with self._lock`, or NoTask
    waiters,      \* tasks suspended in self._lock.acquire(), in FIFO order
    pc,           \* pc[t]: where task t stands
    key,          \* key[t]: the request_key of t's current call
    proxy,        \* proxy[t]: the local `proxy` of t's current call (an index)
    calls,        \* number of next_proxy calls started so far
    reads,        \* history: the cursor value each acquisition read (line 96)
    picks,        \* history: the proxy index each acquisition resolved to
    returned,     \* history: the proxy index each completed call returned
    cancelLog,    \* history: each cancellation, with the reads made before it
    \* ---- two sequential runs of one pool with different keys
    runA, runB,
    \* ---- load_proxies and the proxy test loop
    path,         \* the proxy file with its lines, or NoFile
    linePos,      \* the line the loop of load_proxies stands at
    proxies,      \* the list `proxies` being built
    origin,       \* history: the line each element of proxies came from
    urls,         \* the URL built for each loaded proxy
    loadPc,       \* "start", "lines", "loaded" or "raised"
    \* ---- extract_places_from_html
    html_content, \* the listing hrefs of the page, in document order
    hrefPos,      \* the href the loop stands at
    seen,         \* the set `seen` of dedupe keys
    places,       \* the list `places` being built
    htmlPc,       \* "scan" or "returned"
    \* ---- extract_places_from_page
    containers,   \* the containers query_selector_all finds, in page order
    contPos,      \* the container the loop stands at
    seen_urls,    \* the set `seen_urls`
    pagePlaces,   \* the list `places` being built
    placeOrigin,  \* history: the container each place came from
    failed,       \* history: the containers whose processing raised
    pagePc,       \* "start", "loop", "returned" or "raised"
    \* ---- extract_from_google_data
    data,         \* the parsed JSON value
    gdPlaces,     \* the list the walk returns
    gdPc,         \* "start" or "returned"
    \* ---- parse_jsonld
    blocks,       \* the JSON-LD script blocks of the page, in document order
    blockPos,     \* the block the loop stands at
    best,         \* the local `best`
    ldResult,     \* what parse_jsonld returned
    ldPc,         \* "scan", "returned" or "raised"
    \* ---- scrape_place_detail
    seed,         \* the candidate passed in
    detailPage,   \* what the renderer does for the detail page
    fetched,      \* the local `html_content`
    detailResult, \* what scrape_place_detail returned
    detailError,  \* history: the exception raised inside the current call
    detailCalls,  \* history: calls started so far
    detailFailures, \* history: calls so far in which an exception was raised
    detailPc,     \* "idle", "called", "fetch", "parse", "returned", "raised"
    \* ---- run_simple
    queries,      \* the list of queries
    qi,           \* the number of the query the loop stands at
    phase,        \* where the current query stands
    runPc,        \* "loop" or "done"
    runProxy,     \* the local `proxy_url` of scrape_search_results
    attempts,     \* history: the queries scrape_query was called for
    rendered,     \* history: each navigation, with its query and proxy
    renders,      \* history: navigations made for the current query
    candidates,   \* the number of places extracted for the current query
    trace,        \* history: the orchestrator states of the current query
    openBrowsers, \* the queries whose browser was launched and not closed
    saved,        \* the queries whose results were written
    failures      \* history: each query that raised, with the step it was at

poolVars == <<poolSize, idx, lockHolder, waiters, pc, key, proxy, calls,
              reads, picks, returned, cancelLog>>
keyVars  == <<runA, runB>>
loadVars == <<path, linePos, proxies, origin, urls, loadPc>>
htmlVars == <<html_content, hrefPos, seen, places, htmlPc>>
pageVars == <<containers, contPos, seen_urls, pagePlaces, placeOrigin, failed,
              pagePc>>
dataVars == <<data, gdPlaces, gdPc>>
ldVars   == <<blocks, blockPos, best, ldResult, ldPc>>
detailVars == <<seed, detailPage, fetched, detailResult, detailError,
                detailCalls, detailFailures, detailPc>>
runVars  == <<queries, qi, phase, runPc, runProxy, attempts, rendered,
              renders, candidates, trace, openBrowsers, saved, failures>>
vars     == <<poolVars, keyVars, loadVars, htmlVars, pageVars, dataVars,
              ldVars, detailVars, runVars>>

\* what the actions of one subsystem leave alone
notPool == <<keyVars, loadVars, htmlVars, pageVars, dataVars, ldVars,
             detailVars, runVars>>
notKey  == <<poolVars, loadVars, htmlVars, pageVars, dataVars, ldVars,
             detailVars, runVars>>
notLoad == <<poolVars, keyVars, htmlVars, pageVars, dataVars, ldVars,
             detailVars, runVars>>
notHtml == <<poolVars, keyVars, loadVars, pageVars, dataVars, ldVars,
             detailVars, runVars>>
notPage == <<poolVars, keyVars, loadVars, htmlVars, dataVars, ldVars,
             detailVars, runVars>>
notData == <<poolVars, keyVars, loadVars, htmlVars, pageVars, ldVars,
             detailVars, runVars>>
notLd   == <<poolVars, keyVars, loadVars, htmlVars, pageVars, dataVars,
             detailVars, runVars>>
notDetail == <<poolVars, keyVars, loadVars, htmlVars, pageVars, dataVars,
               ldVars, runVars>>
notRun  == <<poolVars, keyVars, loadVars, htmlVars, pageVars, dataVars,
             ldVars, detailVars>>

(***************************************************************************)
(* Bounds of the model                                                     *)
(***************************************************************************)
NumTasks   == 2      \* tasks that may call next_proxy concurrently
MaxPool    == 2      \* largest pool size K explored
MaxCalls   == 4      \* next_proxy calls started in one behaviour
MaxRunCalls == 3     \* calls made by each of the two compared runs
MaxLines   == 2      \* lines of a proxy file
MaxHrefs   == 2      \* listing hrefs of a page
MaxContainers == 3   \* containers of a rendered page
MaxNest    == 12     \* levels of nesting around a JSON node
MaxBlocks  == 2      \* JSON-LD blocks of a detail page
MaxDetailCalls == 2  \* candidates passed to scrape_place_detail
MaxQueries == 3      \* queries of one run
MaxPlaces  == 2      \* places extracted for one query

Tasks   == 1..NumTasks
NoTask  == 0
NoProxy == -1        \* next_proxy's None
Keys    == {"q1", "q2", "q3"}
NoKey   == "none"

(***************************************************************************)
(* Helpers                                                                 *)
(***************************************************************************)
RECURSIVE CountOf(_, _)
CountOf(s, x) ==
    IF s = <<>> THEN 0
    ELSE (IF Head(s) = x THEN 1 ELSE 0) + CountOf(Tail(s), x)

RemoveFrom(s, x) == SelectSeq(s, LAMBDA y : y # x)

(***************************************************************************)
(* ProxyPool.next_proxy, src/maps_scraper.py:90-105                        *)
(***************************************************************************)
\* mutant: the key takes part in the selection (a keyed affinity scheme)
SelectIndexKeyed(i, K, k) ==
    (i + (CASE k = "q1" -> 0 [] k = "q2" -> 1 [] OTHER -> 2)) % K

\* line 96: self._proxies[self._idx % len(self._proxies)]; request_key unused
SelectIndex(i, K, k) == i % K

\* mutant: the cursor is not advanced
AdvanceCursorStuck(i) == i

\* line 97: self._idx += 1
AdvanceCursor(i) == i + 1

\* mutant: the critical section is entered without looking at the lock
LockAvailableUnguarded == TRUE

\* asyncio.Lock.acquire takes the lock without suspending iff it is not
\* locked and nobody waits for it (line 95)
LockAvailable == lockHolder = NoTask /\ waiters = <<>>

PoolInit ==
    /\ poolSize \in 0..MaxPool
    /\ idx = 0                              \* line 79
    /\ lockHolder = NoTask                  \* line 80
    /\ waiters = <<>>
    /\ pc = [t \in Tasks |-> "idle"]
    /\ key = [t \in Tasks |-> NoKey]
    /\ proxy = [t \in Tasks |-> NoProxy]
    /\ calls = 0
    /\ reads = <<>>
    /\ picks = <<>>
    /\ returned = <<>>
    /\ cancelLog = <<>>

PoolIdle ==
    /\ poolSize = 0
    /\ idx = 0
    /\ lockHolder = NoTask
    /\ waiters = <<>>
    /\ pc = [t \in Tasks |-> "idle"]
    /\ key = [t \in Tasks |-> NoKey]
    /\ proxy = [t \in Tasks |-> NoProxy]
    /\ calls = 0
    /\ reads = <<>>
    /\ picks = <<>>
    /\ returned = <<>>
    /\ cancelLog = <<>>

\* A task calls next_proxy(request_key); lines 92-93: an empty pool returns
\* None at once, without touching the lock or the cursor.
Call(t, k) ==
    /\ pc[t] = "idle"
    /\ calls < MaxCalls
    /\ calls' = calls + 1
    /\ key' = [key EXCEPT ![t] = k]
    /\ IF poolSize = 0
       THEN /\ proxy' = [proxy EXCEPT ![t] = NoProxy]
            /\ pc' = [pc EXCEPT ![t] = "return"]
       ELSE /\ proxy' = proxy
            /\ pc' = [pc EXCEPT ![t] = "acquire"]
    /\ UNCHANGED <<poolSize, idx, lockHolder, waiters, reads, picks, returned>>
    /\ UNCHANGED <<cancelLog, notPool>>

\* line 95, __aenter__: take the lock, or queue up behind it and suspend
Acquire(t) ==
    /\ pc[t] = "acquire"
    /\ IF LockAvailable
       THEN /\ lockHolder' = t
            /\ waiters' = waiters
            /\ pc' = [pc EXCEPT ![t] = "select"]
       ELSE /\ lockHolder' = lockHolder
            /\ waiters' = Append(waiters, t)
            /\ pc' = [pc EXCEPT ![t] = "wait"]
    /\ UNCHANGED <<poolSize, idx, key, proxy, calls, reads, picks, returned>>
    /\ UNCHANGED <<cancelLog, notPool>>

\* line 95: the first waiter is woken once the lock is free and takes it
Granted(t) ==
    /\ pc[t] = "wait"
    /\ lockHolder = NoTask
    /\ waiters # <<>>
    /\ Head(waiters) = t
    /\ lockHolder' = t
    /\ waiters' = Tail(waiters)
    /\ pc' = [pc EXCEPT ![t] = "select"]
    /\ UNCHANGED <<poolSize, idx, key, proxy, calls, reads, picks, returned>>
    /\ UNCHANGED <<cancelLog, notPool>>

\* line 96: read the cursor and resolve the proxy
Select(t) ==
    /\ pc[t] = "select"
    /\ proxy' = [proxy EXCEPT ![t] = SelectIndex(idx, poolSize, key[t])]
    /\ reads' = Append(reads, idx)
    /\ picks' = Append(picks, SelectIndex(idx, poolSize, key[t]))
    /\ pc' = [pc EXCEPT ![t] = "advance"]
    /\ UNCHANGED <<poolSize, idx, lockHolder, waiters, key, calls, returned>>
    /\ UNCHANGED <<cancelLog, notPool>>

\* line 97: advance the cursor
Advance(t) ==
    /\ pc[t] = "advance"
    /\ idx' = AdvanceCursor(idx)
    /\ pc' = [pc EXCEPT ![t] = "release"]
    /\ UNCHANGED <<poolSize, lockHolder, waiters, key, proxy, calls, reads,
                   picks, returned>>
    /\ UNCHANGED <<cancelLog, notPool>>

\* line 95, __aexit__: release the lock
Release(t) ==
    /\ pc[t] = "release"
    /\ lockHolder' = NoTask
    /\ pc' = [pc EXCEPT ![t] = "return"]
    /\ UNCHANGED <<poolSize, idx, waiters, key, proxy, calls, reads, picks,
                   returned>>
    /\ UNCHANGED <<cancelLog, notPool>>

\* lines 99-105: the call returns the URL of the selected proxy (None for an
\* empty pool); the caller then awaits the renderer
Return(t) ==
    /\ pc[t] = "return"
    /\ returned' = Append(returned, proxy[t])
    /\ pc' = [pc EXCEPT ![t] = "render"]
    /\ UNCHANGED <<poolSize, idx, lockHolder, waiters, key, proxy, calls,
                   reads, picks>>
    /\ UNCHANGED <<cancelLog, notPool>>

\* the renderer answers (src/maps_scraper.py:593-601); the task is free to
\* make its next call
RenderDone(t) ==
    /\ pc[t] = "render"
    /\ pc' = [pc EXCEPT ![t] = "idle"]
    /\ key' = [key EXCEPT ![t] = NoKey]
    /\ proxy' = [proxy EXCEPT ![t] = NoProxy]
    /\ UNCHANGED <<poolSize, idx, lockHolder, waiters, calls, reads, picks,
                   returned>>
    /\ UNCHANGED <<cancelLog, notPool>>

\* mutant: a cancelled waiter stays in the lock's queue
CancelLeaky(t) ==
    /\ pc[t] \in {"wait", "render"}
    /\ pc' = [pc EXCEPT ![t] = "cancelled"]
    /\ cancelLog' = Append(cancelLog,
                           [task |-> t, at |-> pc[t], reads |-> Len(reads)])
    /\ UNCHANGED <<poolSize, idx, lockHolder, waiters, key, proxy, calls,
                   reads, picks, returned>>
    /\ UNCHANGED notPool

\* An interrupt (src/scraper.py:338-352) cancels the task at a suspension
\* point: queued for the lock (line 95) or awaiting the renderer.  A
\* cancelled acquire leaves the queue; the task never runs again.
Cancel(t) ==
    /\ pc[t] \in {"wait", "render"}
    /\ pc' = [pc EXCEPT ![t] = "cancelled"]
    /\ cancelLog' = Append(cancelLog,
                           [task |-> t, at |-> pc[t], reads |-> Len(reads)])
    /\ waiters' = RemoveFrom(waiters, t)
    /\ UNCHANGED <<poolSize, idx, lockHolder, key, proxy, calls, reads, picks,
                   returned>>
    /\ UNCHANGED notPool

PoolNext ==
    \E t \in Tasks :
        \/ \E k \in Keys : Call(t, k)
        \/ Acquire(t)
        \/ Granted(t)
        \/ Select(t)
        \/ Advance(t)
        \/ Release(t)
        \/ Return(t)
        \/ RenderDone(t)
        \/ Cancel(t)

(***************************************************************************)
(* Two sequential runs of the same pool, called with different keys        *)
(***************************************************************************)
\* one whole call of next_proxy on a non-empty pool with no other caller:
\* lines 95-97 and the return of line 105
NextProxy(run, K, k) ==
    [idx   |-> AdvanceCursor(run.idx),
     picks |-> Append(run.picks, SelectIndex(run.idx, K, k)),
     keys  |-> Append(run.keys, k)]

NewRun == [idx |-> 0, picks |-> <<>>, keys |-> <<>>]

KeyInit == runA = NewRun /\ runB = NewRun
KeyIdle == runA = NewRun /\ runB = NewRun

CallA(k) ==
    /\ poolSize > 0
    /\ Len(runA.keys) < MaxRunCalls
    /\ runA' = NextProxy(runA, poolSize, k)
    /\ UNCHANGED <<runB, poolSize>>
    /\ UNCHANGED notKey

CallB(k) ==
    /\ poolSize > 0
    /\ Len(runB.keys) < MaxRunCalls
    /\ runB' = NextProxy(runB, poolSize, k)
    /\ UNCHANGED <<runA, poolSize>>
    /\ UNCHANGED notKey

KeyNext == \E k \in Keys : CallA(k) \/ CallB(k)

(***************************************************************************)
(* Text.  A string is a sequence of one-character strings.                 *)
(***************************************************************************)
NoStr == <<"<None>">>       \* Python's None where a string may stand

UpperLetters == <<"A","B","C","D","E","F","G","H","I","J","K","L","M",
                  "N","O","P","Q","R","S","T","U","V","W","X","Y","Z">>
LowerLetters == <<"a","b","c","d","e","f","g","h","i","j","k","l","m",
                  "n","o","p","q","r","s","t","u","v","w","x","y","z">>
DigitChars   == <<"0","1","2","3","4","5","6","7","8","9">>

PosIn(tbl, c) ==
    IF \E i \in 1..Len(tbl) : tbl[i] = c
    THEN CHOOSE i \in 1..Len(tbl) : tbl[i] = c
    ELSE 0

SetMin(S) == CHOOSE x \in S : \A y \in S : x <= y
SetMax(S) == CHOOSE x \in S : \A y \in S : x >= y

IsUpper(c) == PosIn(UpperLetters, c) > 0
IsLower(c) == PosIn(LowerLetters, c) > 0
IsAlpha(c) == IsUpper(c) \/ IsLower(c)
IsDigit(c) == PosIn(DigitChars, c) > 0
IsSpace(c) == c = " "

\* str.lower()
LowerChar(c) == IF IsUpper(c) THEN LowerLetters[PosIn(UpperLetters, c)] ELSE c
LowerStr(s)  == [i \in 1..Len(s) |-> LowerChar(s[i])]

\* str.find / str.rfind of one character, 1-based, 0 when absent
Find(s, c) ==
    LET hits == {i \in 1..Len(s) : s[i] = c}
    IN  IF hits = {} THEN 0 ELSE SetMin(hits)
RFind(s, c) ==
    LET hits == {i \in 1..Len(s) : s[i] = c}
    IN  IF hits = {} THEN 0 ELSE SetMax(hits)

\* `sub in s`
Contains(s, sub) ==
    \E i \in 1..(Len(s) - Len(sub) + 1) : SubSeq(s, i, i + Len(sub) - 1) = sub

From(s, i) == SubSeq(s, i, Len(s))
Upto(s, i) == SubSeq(s, 1, i)

\* str.strip()
RECURSIVE LStrip(_)
LStrip(s) == IF s # <<>> /\ IsSpace(Head(s)) THEN LStrip(Tail(s)) ELSE s
RECURSIVE RStrip(_)
RStrip(s) ==
    IF s # <<>> /\ IsSpace(s[Len(s)]) THEN RStrip(Upto(s, Len(s) - 1)) ELSE s
Strip(s) == RStrip(LStrip(s))

\* int(text) for a string of decimal digits
RECURSIVE ToInt(_)
ToInt(s) ==
    IF s = <<>> THEN 0
    ELSE 10 * ToInt(Upto(s, Len(s) - 1)) + (PosIn(DigitChars, s[Len(s)]) - 1)

\* str(n) for n >= 0
RECURSIVE ToStr(_)
ToStr(n) ==
    IF n < 10 THEN <<DigitChars[n + 1]>>
    ELSE ToStr(n \div 10) \o <<DigitChars[(n % 10) + 1]>>

\* the ASCII punctuation that occurs in proxy lines, with its code
Punct == <<" ", "#", "%", "'", "+", "-", ".", "/", ":", "?", "@", "_", "~">>
PunctCode == <<32, 35, 37, 39, 43, 45, 46, 47, 58, 63, 64, 95, 126>>
Replacement == "<U+FFFD>"   \* what unquote yields for a byte that is no text

CharCode(c) ==
    IF IsDigit(c) THEN 47 + PosIn(DigitChars, c)
    ELSE IF IsUpper(c) THEN 64 + PosIn(UpperLetters, c)
    ELSE IF IsLower(c) THEN 96 + PosIn(LowerLetters, c)
    ELSE PunctCode[PosIn(Punct, c)]

CodeChar(n) ==
    IF n \in 48..57 THEN DigitChars[n - 47]
    ELSE IF n \in 65..90 THEN UpperLetters[n - 64]
    ELSE IF n \in 97..122 THEN LowerLetters[n - 96]
    ELSE IF PosIn(PunctCode, n) > 0 THEN Punct[PosIn(PunctCode, n)]
    ELSE Replacement

HexDigits == <<"0","1","2","3","4","5","6","7","8","9","A","B","C","D","E","F">>
IsHex(c)  == PosIn(HexDigits, c) > 0 \/ c \in {"a","b","c","d","e","f"}
HexVal(c) ==
    IF PosIn(HexDigits, c) > 0 THEN PosIn(HexDigits, c) - 1
    ELSE PosIn(<<"a","b","c","d","e","f">>, c) + 9

\* urllib.parse.quote(s, safe='-._~'): letters, digits and -._~ stay, any
\* other character becomes %XX
QuoteChar(c) ==
    IF IsAlpha(c) \/ IsDigit(c) \/ c \in {"-", ".", "_", "~"} THEN <<c>>
    ELSE <<"%", HexDigits[(CharCode(c) \div 16) + 1],
                HexDigits[(CharCode(c) % 16) + 1]>>
RECURSIVE Quote(_)
Quote(s) == IF s = <<>> THEN <<>> ELSE QuoteChar(Head(s)) \o Quote(Tail(s))

\* urllib.parse.unquote(s): every %XX with two hex digits becomes its
\* character, anything else stays
RECURSIVE Unquote(_)
Unquote(s) ==
    IF s = <<>> THEN <<>>
    ELSE IF Head(s) = "%" /\ Len(s) >= 3 /\ IsHex(s[2]) /\ IsHex(s[3])
         THEN <<CodeChar(16 * HexVal(s[2]) + HexVal(s[3]))>> \o Unquote(From(s, 4))
         ELSE <<Head(s)>> \o Unquote(Tail(s))

(***************************************************************************)
(* urllib.parse.urlparse, as far as parse_proxy_line reads its result      *)
(* (src/maps_scraper.py:129-134)                                           *)
(***************************************************************************)
IsSchemeChar(c) == IsAlpha(c) \/ IsDigit(c) \/ c \in {"+", "-", "."}

\* scheme and netloc of a URL
UrlSplit(url) ==
    LET i         == Find(url, ":")
        hasScheme == /\ i > 1
                     /\ IsAlpha(url[1])
                     /\ \A j \in 1..(i - 1) : IsSchemeChar(url[j])
        scheme    == IF hasScheme THEN LowerStr(Upto(url, i - 1)) ELSE <<>>
        rest      == IF hasScheme THEN From(url, i + 1) ELSE url
        hasNetloc == Len(rest) >= 2 /\ rest[1] = "/" /\ rest[2] = "/"
        after     == From(rest, 3)
        delims    == {j \in 1..Len(after) : after[j] \in {"/", "?", "#"}}
        netloc    == IF ~hasNetloc THEN <<>>
                     ELSE IF delims = {} THEN after
                     ELSE Upto(after, SetMin(delims) - 1)
    IN  [scheme |-> scheme, netloc |-> netloc]

\* netloc.rpartition('@'): what follows the last '@'
HostInfo(netloc) == From(netloc, RFind(netloc, "@") + 1)

\* .hostname: up to the first ':' of the host part, lowercased; None if empty
UrlHostname(netloc) ==
    LET hi == HostInfo(netloc)
        c  == Find(hi, ":")
        h  == IF c = 0 THEN hi ELSE Upto(hi, c - 1)
    IN  IF h = <<>> THEN NoStr ELSE LowerStr(h)

\* the text after the first ':' of the host part
UrlPortText(netloc) ==
    LET hi == HostInfo(netloc)
        c  == Find(hi, ":")
    IN  IF c = 0 THEN <<>> ELSE From(hi, c + 1)

\* .port raises ValueError unless the port text is empty or a decimal number
\* in 0..65535
MaxPort == 65535
UrlPortRaises(netloc) ==
    LET t == UrlPortText(netloc)
    IN  t # <<>> /\ (~(\A i \in 1..Len(t) : IsDigit(t[i])) \/ ToInt(t) > MaxPort)

\* .port: the number, 0 standing also for None (both are falsy in line 130)
UrlPort(netloc) ==
    LET t == UrlPortText(netloc) IN IF t = <<>> THEN 0 ELSE ToInt(t)

\* .username and .password: the text before the last '@', split at its
\* first ':'
UrlUsername(netloc) ==
    LET a  == RFind(netloc, "@")
        ui == Upto(netloc, a - 1)
        c  == Find(ui, ":")
    IN  IF a = 0 THEN NoStr ELSE IF c = 0 THEN ui ELSE Upto(ui, c - 1)

UrlPassword(netloc) ==
    LET a  == RFind(netloc, "@")
        ui == Upto(netloc, a - 1)
        c  == Find(ui, ":")
    IN  IF a = 0 \/ c = 0 THEN NoStr ELSE From(ui, c + 1)

(***************************************************************************)
(* parse_proxy_line, src/maps_scraper.py:108-142                           *)
(***************************************************************************)
InvalidFormat == [ok |-> FALSE]

HttpScheme == <<"h","t","t","p">>

\* lines 121-123: `host:port user:pass` becomes `user:pass@host:port`
Reorder(value) ==
    IF Contains(value, <<" ">>) /\ ~Contains(value, <<"@">>)
    THEN LET sp == Find(value, " ")
         IN  LStrip(From(value, sp)) \o <<"@">> \o Upto(value, sp - 1)
    ELSE value

\* lines 126-127
WithScheme(value) ==
    IF Contains(value, <<":", "/", "/">>) THEN value
    ELSE HttpScheme \o <<":", "/", "/">> \o value

\* a falsy string (None or empty) stays None, any other is percent-decoded
UnquoteOrNone(t) == IF t = NoStr \/ t = <<>> THEN NoStr ELSE Unquote(t)

parse_proxy_line(line) ==
    LET stripped == Strip(line)
        value    == WithScheme(Reorder(stripped))
        parsed   == UrlSplit(value)
        netloc   == parsed.netloc
    IN  IF stripped = <<>> \/ Head(stripped) = "#" THEN InvalidFormat
        ELSE IF UrlHostname(netloc) = NoStr THEN InvalidFormat
        ELSE IF UrlPortRaises(netloc) \/ UrlPort(netloc) = 0 THEN InvalidFormat
        ELSE [ok       |-> TRUE,
              scheme   |-> IF parsed.scheme = <<>> THEN HttpScheme
                           ELSE parsed.scheme,
              host     |-> UrlHostname(netloc),
              port     |-> UrlPort(netloc),
              username |-> UnquoteOrNone(UrlUsername(netloc)),
              password |-> UnquoteOrNone(UrlPassword(netloc))]

(***************************************************************************)
(* ProxyConfig.build_url(), src/maps_scraper.py:42-64, called without      *)
(* session_id and session_length (src/scraper.py:289): lines 46-56 are     *)
(* skipped                                                                 *)
(***************************************************************************)
\* mutant: the port is left out of the URL
build_url_no_port(cfg) ==
    cfg.scheme \o <<":", "/", "/">> \o cfg.host

build_url(cfg) ==
    LET username == IF cfg.username = NoStr THEN <<>> ELSE cfg.username
        auth == IF username # <<>> /\ cfg.password # NoStr
                THEN Quote(username) \o <<":">> \o Quote(cfg.password) \o <<"@">>
                ELSE IF username # <<>> THEN Quote(username) \o <<"@">>
                ELSE <<>>
    IN  cfg.scheme \o <<":", "/", "/">> \o auth \o cfg.host \o <<":">>
            \o ToStr(cfg.port)

(***************************************************************************)
(* Proxy files: the lines a proxy file may hold.  `text` is what the code  *)
(* reads; shape, host and port record how the line was written (shape a:   *)
(* host:port user:pass, b: user:pass@host:port, c: scheme://user:pass@     *)
(* host:port) and are read by the claims only.                             *)
(***************************************************************************)
\* "px.io:80 u:pw"
LineA ==
    [text  |-> <<"p", "x", ".", "i", "o", ":", "8", "0", " ", "u", ":", "p", "w">>,
     shape |-> "a", host |-> <<"p", "x", ".", "i", "o">>, port |-> <<"8", "0">>]
\* "Px.IO:80 u:pw"
LineAUpper ==
    [text  |-> <<"P", "x", ".", "I", "O", ":", "8", "0", " ", "u", ":", "p", "w">>,
     shape |-> "a", host |-> <<"P", "x", ".", "I", "O">>, port |-> <<"8", "0">>]
\* "px.io:080 u:pw"
LineAZero ==
    [text  |-> <<"p", "x", ".", "i", "o", ":", "0", "8", "0", " ", "u", ":", "p", "w">>,
     shape |-> "a", host |-> <<"p", "x", ".", "i", "o">>, port |-> <<"0", "8", "0">>]
\* "  px.io:8080 u:pw "
LineASpaces ==
    [text  |-> <<" ", " ", "p", "x", ".", "i", "o", ":", "8", "0", "8", "0", " ", "u", ":", "p", "w", " ">>,
     shape |-> "a", host |-> <<"p", "x", ".", "i", "o">>, port |-> <<"8", "0", "8", "0">>]
\* "u:pw@px.io:80"
LineB ==
    [text  |-> <<"u", ":", "p", "w", "@", "p", "x", ".", "i", "o", ":", "8", "0">>,
     shape |-> "b", host |-> <<"p", "x", ".", "i", "o">>, port |-> <<"8", "0">>]
\* "u%40x:pw@Px.io:8080"
LineBEncoded ==
    [text  |-> <<"u", "%", "4", "0", "x", ":", "p", "w", "@", "P", "x", ".", "i", "o", ":", "8", "0", "8", "0">>,
     shape |-> "b", host |-> <<"P", "x", ".", "i", "o">>, port |-> <<"8", "0", "8", "0">>]
\* "http://u:pw@px.io:80"
LineC ==
    [text  |-> <<"h", "t", "t", "p", ":", "/", "/", "u", ":", "p", "w", "@", "p", "x", ".", "i", "o", ":", "8", "0">>,
     shape |-> "c", host |-> <<"p", "x", ".", "i", "o">>, port |-> <<"8", "0">>]
\* "SOCKS5://u:pw@10.0.0.1:1080"
LineCSocks ==
    [text  |-> <<"S", "O", "C", "K", "S", "5", ":", "/", "/", "u", ":", "p", "w", "@", "1", "0", ".", "0", ".", "0", ".", "1", ":", "1", "0", "8", "0">>,
     shape |-> "c", host |-> <<"1", "0", ".", "0", ".", "0", ".", "1">>, port |-> <<"1", "0", "8", "0">>]
\* ""
LineEmpty ==
    [text  |-> <<>>,
     shape |-> "empty", host |-> <<>>, port |-> <<>>]
\* "   "
LineBlank ==
    [text  |-> <<" ", " ", " ">>,
     shape |-> "empty", host |-> <<>>, port |-> <<>>]
\* "# px.io:80 u:pw"
LineComment ==
    [text  |-> <<"#", " ", "p", "x", ".", "i", "o", ":", "8", "0", " ", "u", ":", "p", "w">>,
     shape |-> "comment", host |-> <<>>, port |-> <<>>]
\* "px.io u:pw"
LineNoPort ==
    [text  |-> <<"p", "x", ".", "i", "o", " ", "u", ":", "p", "w">>,
     shape |-> "noport", host |-> <<>>, port |-> <<>>]
\* "px.io:0 u:pw"
LinePortZero ==
    [text  |-> <<"p", "x", ".", "i", "o", ":", "0", " ", "u", ":", "p", "w">>,
     shape |-> "noport", host |-> <<>>, port |-> <<>>]
\* "px.io:8a u:pw"
LinePortText ==
    [text  |-> <<"p", "x", ".", "i", "o", ":", "8", "a", " ", "u", ":", "p", "w">>,
     shape |-> "noport", host |-> <<>>, port |-> <<>>]
\* "px.io:65536 u:pw"
LinePortBig ==
    [text  |-> <<"p", "x", ".", "i", "o", ":", "6", "5", "5", "3", "6", " ", "u", ":", "p", "w">>,
     shape |-> "noport", host |-> <<>>, port |-> <<>>]
\* "u:pw@:80"
LineNoHost ==
    [text  |-> <<"u", ":", "p", "w", "@", ":", "8", "0">>,
     shape |-> "nohost", host |-> <<>>, port |-> <<>>]
\* "px.io:80 u:p@w"
LineAtInPass ==
    [text  |-> <<"p", "x", ".", "i", "o", ":", "8", "0", " ", "u", ":", "p", "@", "w">>,
     shape |-> "noport", host |-> <<>>, port |-> <<>>]
\* "px.io:80"
LineBare ==
    [text  |-> <<"p", "x", ".", "i", "o", ":", "8", "0">>,
     shape |-> "bare", host |-> <<"p", "x", ".", "i", "o">>, port |-> <<"8", "0">>]

ProxyLines ==
    {LineA, LineAUpper, LineAZero, LineASpaces,
     LineB, LineBEncoded, LineC, LineCSocks,
     LineEmpty, LineBlank, LineComment, LineNoPort,
     LinePortZero, LinePortText, LinePortBig, LineNoHost,
     LineAtInPass, LineBare}

(***************************************************************************)
(* load_proxies, src/maps_scraper.py:145-157, and the proxy test loop of   *)
(* main, src/scraper.py:281-293                                            *)
(***************************************************************************)
\* `path`: a file with its lines, or None
NoFile == [given |-> FALSE, lines |-> <<>>]
File(ls) == [given |-> TRUE, lines |-> ls]

ProxyFiles ==
    {File(ls) : ls \in UNION {[1..n -> ProxyLines] : n \in 0..MaxLines}}

LoadInit ==
    /\ path \in ProxyFiles \cup {NoFile}
    /\ linePos = 0
    /\ proxies = <<>>
    /\ origin = <<>>
    /\ urls = <<>>
    /\ loadPc = "start"

LoadIdle ==
    /\ path = NoFile
    /\ linePos = 0
    /\ proxies = <<>>
    /\ origin = <<>>
    /\ urls = <<>>
    /\ loadPc = "start"

\* lines 147-151: no path returns []; otherwise the file is read and split
LoadOpen ==
    /\ loadPc = "start"
    /\ IF ~path.given
       THEN loadPc' = "loaded" /\ linePos' = linePos
       ELSE loadPc' = "lines" /\ linePos' = 1
    /\ UNCHANGED <<path, proxies, origin, urls>>
    /\ UNCHANGED notLoad

\* mutant: the ValueError of one line ends the loop
LoadLineAbort ==
    /\ loadPc = "lines"
    /\ linePos <= Len(path.lines)
    /\ LET p == parse_proxy_line(path.lines[linePos].text)
       IN  IF p.ok
           THEN /\ proxies' = Append(proxies, p)
                /\ origin' = Append(origin, linePos)
                /\ linePos' = linePos + 1
                /\ loadPc' = loadPc
           ELSE /\ UNCHANGED <<proxies, origin, linePos>>
                /\ loadPc' = "raised"
    /\ UNCHANGED <<path, urls>>
    /\ UNCHANGED notLoad

\* lines 151-156: one turn of the loop; a ValueError of parse_proxy_line is
\* caught and the line skipped
LoadLine ==
    /\ loadPc = "lines"
    /\ linePos <= Len(path.lines)
    /\ LET p == parse_proxy_line(path.lines[linePos].text)
       IN  IF p.ok
           THEN /\ proxies' = Append(proxies, p)
                /\ origin' = Append(origin, linePos)
           ELSE UNCHANGED <<proxies, origin>>
    /\ linePos' = linePos + 1
    /\ UNCHANGED <<path, urls, loadPc>>
    /\ UNCHANGED notLoad

\* line 157
LoadReturn ==
    /\ loadPc = "lines"
    /\ linePos > Len(path.lines)
    /\ loadPc' = "loaded"
    /\ UNCHANGED <<path, linePos, proxies, origin, urls>>
    /\ UNCHANGED notLoad

\* src/scraper.py:288-289: proxy.build_url() for each loaded proxy in turn
TestProxy ==
    /\ loadPc = "loaded"
    /\ Len(urls) < Len(proxies)
    /\ urls' = Append(urls, build_url(proxies[Len(urls) + 1]))
    /\ UNCHANGED <<path, linePos, proxies, origin, loadPc>>
    /\ UNCHANGED notLoad

LoadNext == LoadOpen \/ LoadLine \/ LoadReturn \/ TestProxy

(***************************************************************************)
(* extract_places_from_html, src/maps_scraper.py:459-510                   *)
(*                                                                         *)
(* A raw href is a record of the parts the regular expressions of lines    *)
(* 472-474 and 484 look for: the slug after /maps/place/, the place id     *)
(* that follows a marker such as !1s, the 0x..:0x.. pair, and the query    *)
(* string, which may be written with HTML entities (&amp;).  Two raw hrefs *)
(* are the same string iff they are the same record.                       *)
(***************************************************************************)
NoMatch  == [found |-> FALSE]
Match(v) == [found |-> TRUE, val |-> v]

SlugJoe == <<"J","o","e","%","2","7","s","+","P","i","z","z","a">>

Href(pid, d, q, e) ==
    [slug |-> SlugJoe, pid |-> pid, data |-> d, query |-> q, entities |-> e]

\* with and without place id, with and without data id, without a query
\* string and with one of two, written plainly or with entities
RawHrefs ==
    {Href(pid, d, "", FALSE) :
        pid \in {"", "ChIJa"}, d \in {<<>>, <<"1">>, <<"2", "a">>}}
    \cup
    {Href(x[1], x[2], x[3], x[4]) :
        x \in {"", "ChIJa"} \X {<<>>, <<"1">>, <<"2", "a">>}
               \X {"hl=en", "hl=de"} \X BOOLEAN}

Pages == UNION {[1..n -> RawHrefs] : n \in 0..MaxHrefs}

\* lines 468-469: html.unescape turns the entities into characters and
\* unquote decodes the percent escapes
DecodeHref(raw) ==
    [raw EXCEPT !.entities = FALSE, !.slug = Unquote(raw.slug)]

\* line 472: the first 0x<hex>:0x<hex> of the href
DataIdMatch(href) == IF href.data = <<>> THEN NoMatch ELSE Match(href.data)
\* line 473: the ChI... token after a marker
PlaceIdMatch(href) == IF href.pid = "" THEN NoMatch ELSE Match(href.pid)

\* line 477: place_id or "", then "|", then data_id or else the whole href
DedupeKey(href) ==
    [place |-> IF PlaceIdMatch(href).found THEN PlaceIdMatch(href).val ELSE "",
     rest  |-> IF DataIdMatch(href).found
               THEN [data_id |-> DataIdMatch(href).val]
               ELSE [href |-> href]]

PlusToSpace(t) == [i \in 1..Len(t) |-> IF t[i] = "+" THEN " " ELSE t[i]]

\* lines 483-486: unquote_plus of the slug, then '+' to ' '
TitleOf(href) == PlusToSpace(Unquote(PlusToSpace(href.slug)))

\* int(text, 16)
RECURSIVE HexToInt(_)
HexToInt(t) ==
    IF t = <<>> THEN 0
    ELSE 16 * HexToInt(Upto(t, Len(t) - 1)) + HexVal(t[Len(t)])

\* lines 497-507
PlaceOf(href) ==
    [title    |-> IF TitleOf(href) = <<>> THEN NoStr ELSE TitleOf(href),
     place_id |-> PlaceIdMatch(href),
     data_id  |-> DataIdMatch(href),
     data_cid |-> IF DataIdMatch(href).found
                  THEN Match(ToStr(HexToInt(DataIdMatch(href).val)))
                  ELSE NoMatch,
     maps_url |-> href]

HtmlInit ==
    /\ html_content \in Pages
    /\ hrefPos = 1
    /\ seen = {}
    /\ places = <<>>
    /\ htmlPc = "scan"

HtmlIdle ==
    /\ html_content = <<>>
    /\ hrefPos = 1
    /\ seen = {}
    /\ places = <<>>
    /\ htmlPc = "scan"

\* lines 467-508: one turn of the loop
HtmlHref ==
    /\ htmlPc = "scan"
    /\ hrefPos <= Len(html_content)
    /\ LET href == DecodeHref(html_content[hrefPos])
       IN  IF DedupeKey(href) \in seen
           THEN UNCHANGED <<seen, places>>
           ELSE /\ seen' = seen \cup {DedupeKey(href)}
                /\ places' = Append(places, PlaceOf(href))
    /\ hrefPos' = hrefPos + 1
    /\ UNCHANGED <<html_content, htmlPc>>
    /\ UNCHANGED notHtml

\* line 510
HtmlReturn ==
    /\ htmlPc = "scan"
    /\ hrefPos > Len(html_content)
    /\ htmlPc' = "returned"
    /\ UNCHANGED <<html_content, hrefPos, seen, places>>
    /\ UNCHANGED notHtml

HtmlNext == HtmlHref \/ HtmlReturn

(***************************************************************************)
(* extract_places_from_page, src/maps_scraper.py:371-456                   *)
(*                                                                         *)
(* A container is what the selectors of lines 384-441 find in it: whether  *)
(* it has a place link, the link's href, the heading text, the texts of    *)
(* its spans, its external links and its images.                           *)
(***************************************************************************)
SlugCafe == <<"C","a","f","e","+","X">>
SlugBar  == <<"B","a","r">>

\* an href /maps/place/<slug>, relative or absolute
PlaceHref(abs, slug) == [abs |-> abs, slug |-> slug]

CardCafe ==
    [link |-> TRUE, href |-> Match(PlaceHref(FALSE, SlugCafe)),
     heading |-> NoStr, spans |-> << <<"4", ",", "5">> >>,
     links |-> <<"google", "external">>, imgs |-> <<"other", "asset">>]
\* a second card with the href of CardCafe
CardCafeAgain ==
    [link |-> TRUE, href |-> Match(PlaceHref(FALSE, SlugCafe)),
     heading |-> <<"C","a","f","e">>,
     spans |-> << <<"a", "b", "c">>, <<"4", ".", "2">> >>,
     links |-> <<>>, imgs |-> <<>>]
CardBar ==
    [link |-> TRUE, href |-> Match(PlaceHref(TRUE, SlugBar)),
     heading |-> <<" ","B","a","r"," ">>, spans |-> <<>>,
     links |-> <<"place">>, imgs |-> <<"alt">>]
\* query_selector finds no place link (line 385)
CardNoLink ==
    [link |-> FALSE, href |-> NoMatch, heading |-> NoStr, spans |-> <<>>,
     links |-> <<>>, imgs |-> <<>>]
\* the link has no href (line 389)
CardNoHref ==
    [link |-> TRUE, href |-> NoMatch, heading |-> NoStr, spans |-> <<>>,
     links |-> <<>>, imgs |-> <<>>]

Cards == {CardCafe, CardCafeAgain, CardBar, CardNoLink, CardNoHref}

RenderedPages == UNION {[1..n -> Cards] : n \in 0..MaxContainers}

\* where the processing of a container may raise: at the query for its link
\* (line 384), at the read of the href (line 388), or later, in lines 398-441
FailPoints == {"none", "link", "href", "body"}

\* line 394
FullUrl(href) ==
    [prefix |-> IF href.abs THEN "" ELSE "https://www.google.com",
     href   |-> href]

\* lines 397-406 and 445: the heading text, else the decoded slug; stripped
PageTitle(c) ==
    IF c.heading # NoStr /\ c.heading # <<>> THEN Strip(c.heading)
    ELSE Strip(PlusToSpace(Unquote(PlusToSpace(c.href.val.slug))))

\* line 415: ^([0-9]+[,.][0-9])$ on the stripped text
IsRatingText(t) ==
    /\ Len(t) >= 3
    /\ IsDigit(t[Len(t)])
    /\ t[Len(t) - 1] \in {",", "."}
    /\ \A i \in 1..(Len(t) - 2) : IsDigit(t[i])

\* lines 418-420: the comma becomes a point and float() reads the number;
\* the value is kept in tenths
RatingValue(t) == 10 * ToInt(Upto(t, Len(t) - 2)) + ToInt(<<t[Len(t)]>>)

\* lines 409-423: the first span whose text is a rating
PageRating(c) ==
    LET hits == {i \in 1..Len(c.spans) : IsRatingText(Strip(c.spans[i]))}
    IN  IF hits = {} THEN NoMatch
        ELSE Match(RatingValue(Strip(c.spans[SetMin(hits)])))

\* lines 426-432: the first link that is neither Google's nor a place link
PageWebsite(c) ==
    LET hits == {i \in 1..Len(c.links) : c.links[i] \notin {"google", "place"}}
    IN  IF hits = {} THEN NoMatch ELSE Match(<<SetMin(hits), c.links[SetMin(hits)]>>)

\* lines 435-441: the first image from an asset host or with the provider's
\* name in its alt text
PageImage(c) ==
    LET hits == {i \in 1..Len(c.imgs) : c.imgs[i] \in {"asset", "alt"}}
    IN  IF hits = {} THEN NoMatch ELSE Match(<<SetMin(hits), c.imgs[SetMin(hits)]>>)

\* lines 443-450
PagePlace(c, n) ==
    [position  |-> n + 1,
     title     |-> PageTitle(c),
     rating    |-> PageRating(c),
     website   |-> PageWebsite(c),
     image_url |-> PageImage(c),
     maps_url  |-> FullUrl(c.href.val)]

PageInit ==
    /\ containers \in RenderedPages
    /\ contPos = 1
    /\ seen_urls = {}
    /\ pagePlaces = <<>>
    /\ placeOrigin = <<>>
    /\ failed = {}
    /\ pagePc = "start"

PageIdle ==
    /\ containers = <<>>
    /\ contPos = 1
    /\ seen_urls = {}
    /\ pagePlaces = <<>>
    /\ placeOrigin = <<>>
    /\ failed = {}
    /\ pagePc = "start"

\* line 377: the query for the containers; it stands outside the try and an
\* error of it leaves the function
QueryContainers(ok) ==
    /\ pagePc = "start"
    /\ pagePc' = IF ok THEN "loop" ELSE "raised"
    /\ UNCHANGED <<containers, contPos, seen_urls, pagePlaces, placeOrigin,
                   failed>>
    /\ UNCHANGED notPage

\* mutant: an error of one container leaves the function
ProcessContainerRaising(fail) ==
    /\ pagePc = "loop"
    /\ contPos <= Len(containers)
    /\ LET c == containers[contPos]
       IN  IF fail \in {"link", "href", "body"}
           THEN /\ pagePc' = "raised"
                /\ failed' = failed \cup {contPos}
                /\ UNCHANGED <<seen_urls, pagePlaces, placeOrigin, contPos>>
           ELSE /\ UNCHANGED <<failed, pagePc>>
                /\ contPos' = contPos + 1
                /\ IF ~c.link \/ ~c.href.found \/ c.href.val \in seen_urls
                   THEN UNCHANGED <<seen_urls, pagePlaces, placeOrigin>>
                   ELSE /\ seen_urls' = seen_urls \cup {c.href.val}
                        /\ pagePlaces' = Append(pagePlaces,
                                                PagePlace(c, Len(pagePlaces)))
                        /\ placeOrigin' = Append(placeOrigin, contPos)
    /\ UNCHANGED containers
    /\ UNCHANGED notPage

\* lines 381-454: one turn of the loop.  `fail` is where the renderer raises
\* for this container, if the processing gets that far; the except clause of
\* line 453 catches it and the loop goes on.
ProcessContainer(fail) ==
    /\ pagePc = "loop"
    /\ contPos <= Len(containers)
    /\ LET c == containers[contPos]
       IN  IF fail = "link"                                  \* line 384 raises
           THEN /\ failed' = failed \cup {contPos}
                /\ UNCHANGED <<seen_urls, pagePlaces, placeOrigin>>
           ELSE IF ~c.link                                   \* lines 385-386
           THEN UNCHANGED <<seen_urls, pagePlaces, placeOrigin, failed>>
           ELSE IF fail = "href"                             \* line 388 raises
           THEN /\ failed' = failed \cup {contPos}
                /\ UNCHANGED <<seen_urls, pagePlaces, placeOrigin>>
           ELSE IF ~c.href.found \/ c.href.val \in seen_urls \* lines 389-390
           THEN UNCHANGED <<seen_urls, pagePlaces, placeOrigin, failed>>
           ELSE /\ seen_urls' = seen_urls \cup {c.href.val}  \* line 391
                /\ IF fail = "body"                          \* 398-441 raise
                   THEN /\ failed' = failed \cup {contPos}
                        /\ UNCHANGED <<pagePlaces, placeOrigin>>
                   ELSE /\ pagePlaces' = Append(pagePlaces,
                                                PagePlace(c, Len(pagePlaces)))
                        /\ placeOrigin' = Append(placeOrigin, contPos)
                        /\ UNCHANGED failed
    /\ contPos' = contPos + 1
    /\ UNCHANGED <<containers, pagePc>>
    /\ UNCHANGED notPage

\* line 456
PageReturn ==
    /\ pagePc = "loop"
    /\ contPos > Len(containers)
    /\ pagePc' = "returned"
    /\ UNCHANGED <<containers, contPos, seen_urls, pagePlaces, placeOrigin,
                   failed>>
    /\ UNCHANGED notPage

PageNext ==
    \/ \E ok \in BOOLEAN : QueryContainers(ok)
    \/ \E fail \in FailPoints : ProcessContainer(fail)
    \/ PageReturn

(***************************************************************************)
(* JSON values, as json.loads returns them: a tagged variant.  An object   *)
(* is the sequence of its key/value pairs, in insertion order, with        *)
(* distinct keys.                                                          *)
(***************************************************************************)
JNull      == [t |-> "null"]
JStr(x)    == [t |-> "str", v |-> x]
JNum(x)    == [t |-> "num", v |-> x]
JList(xs)  == [t |-> "list", items |-> xs]
JDict(kvs) == [t |-> "dict", pairs |-> kvs]

HasKey(obj, k) == \E i \in 1..Len(obj.pairs) : obj.pairs[i][1] = k
\* obj[k]
Get(obj, k) ==
    obj.pairs[CHOOSE i \in 1..Len(obj.pairs) : obj.pairs[i][1] = k][2]
\* d[k] = v on a dict kept as pairs
Put(kvs, k, v) ==
    IF \E i \in 1..Len(kvs) : kvs[i][1] = k
    THEN [i \in 1..Len(kvs) |-> IF kvs[i][1] = k THEN <<k, v>> ELSE kvs[i]]
    ELSE Append(kvs, <<k, v>>)

(***************************************************************************)
(* extract_from_google_data, src/maps_scraper.py:538-564                   *)
(***************************************************************************)
DepthLimit == 10
PlaceKeys == {"title", "name", "place_id", "fsq_id"}

\* mutant: the walk stops one level early
TooDeepEarly(depth) == depth >= DepthLimit

\* line 543
TooDeep(depth) == depth > DepthLimit

\* lines 551-558: the records a dict node itself adds to `places`
NodePlaces(obj) ==
    IF \E k \in PlaceKeys : HasKey(obj, k)
    THEN LET p1 == IF HasKey(obj, "title")
                   THEN Put(<<>>, "title", Get(obj, "title")) ELSE <<>>
             p2 == IF HasKey(obj, "name")
                   THEN Put(p1, "title", Get(obj, "name")) ELSE p1
         IN  IF p2 # <<>> THEN <<p2>> ELSE <<>>
    ELSE <<>>

\* lines 542-561: extract_recursive; the result is what it appends to places
RECURSIVE extract_recursive(_, _)
RECURSIVE WalkAll(_, _)
WalkAll(xs, depth) ==
    IF xs = <<>> THEN <<>>
    ELSE extract_recursive(Head(xs), depth) \o WalkAll(Tail(xs), depth)

extract_recursive(obj, depth) ==
    IF TooDeep(depth) THEN <<>>
    ELSE IF obj.t = "list" THEN WalkAll(obj.items, depth + 1)
    ELSE IF obj.t = "dict"
         THEN NodePlaces(obj)
              \o WalkAll([i \in 1..Len(obj.pairs) |-> obj.pairs[i][2]], depth + 1)
    ELSE <<>>

\* lines 540, 563-564
extract_from_google_data(d) == extract_recursive(d, 0)

\* the nodes the walk is tried on
LeafNodes ==
    {JDict(<< <<"title", JStr("Cafe X")>> >>),
     JDict(<< <<"name", JStr("Bar Y")>> >>),
     JDict(<< <<"title", JStr("Cafe X")>>, <<"name", JStr("Bar Y")>> >>),
     JDict(<< <<"place_id", JStr("ChIJa")>> >>),
     JDict(<< <<"fsq_id", JStr("f1")>> >>),
     JDict(<< <<"title", JNull>>, <<"place_id", JStr("ChIJa")>> >>),
     JDict(<< <<"other", JNum(1)>> >>),
     JDict(<<>>),
     JStr("title")}

\* v under n levels of lists, or of objects
RECURSIVE NestInLists(_, _)
NestInLists(v, n) == IF n = 0 THEN v ELSE JList(<<NestInLists(v, n - 1)>>)
RECURSIVE NestInDicts(_, _)
NestInDicts(v, n) ==
    IF n = 0 THEN v ELSE JDict(<< <<"d", NestInDicts(v, n - 1)>> >>)

JsonValues ==
    {NestInLists(v, n) : v \in LeafNodes, n \in 0..MaxNest}
    \cup {NestInDicts(v, n) : v \in LeafNodes, n \in 0..MaxNest}
    \cup {JList(<<v, w>>) : v, w \in LeafNodes}
    \cup {JDict(<< <<"title", JStr("Cafe X")>>, <<"child", JList(<<v>>)>> >>) :
             v \in LeafNodes}

DataInit ==
    /\ data \in JsonValues
    /\ gdPlaces = <<>>
    /\ gdPc = "start"

DataIdle ==
    /\ data = JNull
    /\ gdPlaces = <<>>
    /\ gdPc = "start"

ExtractFromGoogleData ==
    /\ gdPc = "start"
    /\ gdPlaces' = extract_from_google_data(data)
    /\ gdPc' = "returned"
    /\ UNCHANGED data
    /\ UNCHANGED notData

DataNext == ExtractFromGoogleData

(***************************************************************************)
(* parse_jsonld, src/maps_scraper.py:743-770                               *)
(*                                                                         *)
(* A block is the text of one <script type="application/ld+json"> after    *)
(* html.unescape and strip: empty, not JSON, or a JSON value.              *)
(***************************************************************************)
BlankBlock   == [kind |-> "blank"]
InvalidBlock == [kind |-> "invalid"]
JsonBlock(v) == [kind |-> "json", value |-> v]

KnownTypes == {"LocalBusiness", "Place", "Restaurant", "Store"}

EmptyObject == JDict(<<>>)

\* `obj.get("@type") in {...}` (lines 763 and 765): a string is looked up in
\* the set; an absent key gives None, which is not in it; a list or an object
\* is unhashable and the lookup raises TypeError
TypeLookup(obj) ==
    IF ~HasKey(obj, "@type") THEN "miss"
    ELSE LET ty == Get(obj, "@type")
         IN  IF ty.t \in {"list", "dict"} THEN "raise"
             ELSE IF ty.t = "str" /\ ty.v \in KnownTypes THEN "hit"
             ELSE "miss"

NoHit     == [o |-> "none"]
Hit(v)    == [o |-> "return", value |-> v]
TypeError == [o |-> "raise"]

\* lines 762-764: the loop over the items of a list block
RECURSIVE ScanItems(_)
ScanItems(items) ==
    IF items = <<>> THEN NoHit
    ELSE LET item == Head(items)
         IN  IF item.t # "dict" THEN ScanItems(Tail(items))
             ELSE IF TypeLookup(item) = "raise" THEN TypeError
             ELSE IF TypeLookup(item) = "hit" THEN Hit(item)
             ELSE ScanItems(Tail(items))

\* lines 761-766: what one parsed block does to the scan
ScanBlock(v) ==
    IF v.t = "list" THEN ScanItems(v.items)
    ELSE IF v.t = "dict"
         THEN IF TypeLookup(v) = "raise" THEN TypeError
              ELSE IF TypeLookup(v) = "hit" THEN Hit(v)
              ELSE NoHit
    ELSE NoHit

LdRestaurant ==
    JDict(<< <<"@type", JStr("Restaurant")>>, <<"name", JStr("R")>> >>)
LdPlace == JDict(<< <<"@type", JStr("Place")>> >>)
LdOrganization ==
    JDict(<< <<"@type", JStr("Organization")>>, <<"name", JStr("O")>> >>)
LdUntyped == JDict(<< <<"name", JStr("N")>> >>)
\* "@type": ["Restaurant", "LocalBusiness"]
LdListTyped ==
    JDict(<< <<"@type", JList(<<JStr("Restaurant"), JStr("LocalBusiness")>>)>>,
             <<"name", JStr("L")>> >>)

LdBlocks ==
    {BlankBlock, InvalidBlock,
     JsonBlock(LdRestaurant), JsonBlock(LdPlace), JsonBlock(LdOrganization),
     JsonBlock(LdUntyped), JsonBlock(EmptyObject), JsonBlock(LdListTyped),
     JsonBlock(JNum(1)), JsonBlock(JList(<<>>)),
     JsonBlock(JList(<<LdOrganization, LdRestaurant, LdPlace>>)),
     JsonBlock(JList(<<JStr("x"), LdUntyped>>)),
     JsonBlock(JList(<<LdUntyped, LdListTyped, LdRestaurant>>))}

DetailPages == UNION {[1..n -> LdBlocks] : n \in 0..MaxBlocks}

LdInit ==
    /\ blocks \in DetailPages
    /\ blockPos = 1
    /\ best = EmptyObject                   \* line 751
    /\ ldResult = JNull
    /\ ldPc = "scan"

LdIdle ==
    /\ blocks = <<>>
    /\ blockPos = 1
    /\ best = EmptyObject
    /\ ldResult = JNull
    /\ ldPc = "scan"

\* lines 752-769: one turn of the loop over the blocks
LdBlock ==
    /\ ldPc = "scan"
    /\ blockPos <= Len(blocks)
    /\ LET b == blocks[blockPos]
       IN  IF b.kind \in {"blank", "invalid"}            \* lines 754-759
           THEN /\ blockPos' = blockPos + 1
                /\ UNCHANGED <<best, ldResult, ldPc>>
           ELSE LET r == ScanBlock(b.value)
                IN  IF r.o = "raise"
                    THEN /\ ldPc' = "raised"
                         /\ UNCHANGED <<blockPos, best, ldResult>>
                    ELSE IF r.o = "return"               \* lines 764, 766
                    THEN /\ ldPc' = "returned"
                         /\ ldResult' = r.value
                         /\ UNCHANGED <<blockPos, best>>
                    ELSE /\ blockPos' = blockPos + 1     \* lines 768-769
                         /\ best' = IF b.value.t = "dict" /\ best = EmptyObject
                                    THEN b.value ELSE best
                         /\ UNCHANGED <<ldResult, ldPc>>
    /\ UNCHANGED blocks
    /\ UNCHANGED notLd

\* line 770
LdReturn ==
    /\ ldPc = "scan"
    /\ blockPos > Len(blocks)
    /\ ldPc' = "returned"
    /\ ldResult' = best
    /\ UNCHANGED <<blocks, blockPos, best>>
    /\ UNCHANGED notLd

LdNext == LdBlock \/ LdReturn

(***************************************************************************)
(* scrape_place_detail, src/maps_scraper.py:613-740                        *)
(*                                                                         *)
(* Records are JSON objects.  A str whose characters matter (a number      *)
(* text, a data id, a day URI) is kept as its characters; a float is kept  *)
(* in thousandths.                                                         *)
(***************************************************************************)
JText(cs) == [t |-> "text", cs |-> cs]
JFloat(m) == [t |-> "float", milli |-> m]

\* isinstance(v, str)
IsStr(v) == v.t \in {"str", "text"}

\* bool(v)
Truthy(v) ==
    CASE v.t = "null"  -> FALSE
      [] v.t = "str"   -> v.v # ""
      [] v.t = "text"  -> v.cs # <<>>
      [] v.t = "num"   -> v.v # 0
      [] v.t = "float" -> v.milli # 0
      [] v.t = "list"  -> v.items # <<>>
      [] v.t = "dict"  -> v.pairs # <<>>

\* obj.get(k)
GetOrNull(obj, k) == IF HasKey(obj, k) THEN Get(obj, k) ELSE JNull

\* a or b
Or(a, b) == IF Truthy(a) THEN a ELSE b

\* the characters of a str; a word kept whole counts as one chunk
Chars(v) ==
    IF v.t = "text" THEN v.cs ELSE IF v.v = "" THEN <<>> ELSE <<v.v>>

\* how an expression ends: with a value or with an exception
Value(v) == [o |-> "value", value |-> v]
Raise(e) == [o |-> "raise", exc |-> e]

IsDigits(s) == s # <<>> /\ \A i \in 1..Len(s) : IsDigit(s[i])

\* the sign a number text starts with
Signed(s)   == s # <<>> /\ Head(s) \in {"+", "-"}
Unsigned(s) == IF Signed(s) THEN Tail(s) ELSE s
SignOf(s)   == IF s # <<>> /\ Head(s) = "-" THEN -1 ELSE 1

\* decimal digits with at most one point and a digit on one side of it
\* (float() also reads exponents, inf and nan; no text of the model has one)
IsDecimal(s) ==
    LET p == Find(s, ".")
    IN  IF p = 0 THEN IsDigits(s)
        ELSE /\ Len(s) > 1
             /\ \A i \in 1..Len(s) : i # p => IsDigit(s[i])

\* the value of a decimal text, in thousandths
Milli(s) ==
    LET p     == Find(s, ".")
        whole == IF p = 0 THEN s ELSE Upto(s, p - 1)
        frac  == IF p = 0 THEN <<>> ELSE From(s, p + 1)
    IN  1000 * ToInt(whole) + ToInt(Upto(frac \o <<"0", "0", "0">>, 3))

\* float(v), lines 715
float(v) ==
    CASE v.t = "text" ->
            IF IsDecimal(Unsigned(Strip(v.cs)))
            THEN Value(JFloat(SignOf(Strip(v.cs)) * Milli(Unsigned(Strip(v.cs)))))
            ELSE Raise("ValueError")
      [] v.t = "str"   -> Raise("ValueError")     \* a word is not a number
      [] v.t = "num"   -> Value(JFloat(1000 * v.v))
      [] v.t = "float" -> Value(v)
      [] OTHER         -> Raise("TypeError")

\* int(v), line 716: a text of digits, or a number truncated towards zero
int(v) ==
    CASE v.t = "text" ->
            IF IsDigits(Unsigned(Strip(v.cs)))
            THEN Value(JNum(SignOf(Strip(v.cs)) * ToInt(Unsigned(Strip(v.cs)))))
            ELSE Raise("ValueError")
      [] v.t = "str"   -> Raise("ValueError")
      [] v.t = "num"   -> Value(v)
      [] v.t = "float" -> Value(JNum(IF v.milli >= 0 THEN v.milli \div 1000
                                     ELSE -((-v.milli) \div 1000)))
      [] OTHER         -> Raise("TypeError")

\* urllib.parse.quote(s) with its default safe="/"
QuoteUrl(s) ==
    IF s = <<>> THEN <<>>
    ELSE [i \in 1..Len(s) |-> IF s[i] = "/" THEN <<"/">> ELSE QuoteChar(s[i])]

RECURSIVE Flatten(_)
Flatten(ss) == IF ss = <<>> THEN <<>> ELSE Head(ss) \o Flatten(Tail(ss))

\* lines 637-642: the raw ratingValue and reviewCount
RawRating(jsonld, k) ==
    IF GetOrNull(jsonld, "aggregateRating").t = "dict"
    THEN GetOrNull(GetOrNull(jsonld, "aggregateRating"), k)
    ELSE JNull

\* lines 645-655: ", ".join(str(x) for x in parts if x), kept as its parts
AddressParts == <<"streetAddress", "addressLocality", "addressRegion",
                  "postalCode">>
AddressOf(jsonld) ==
    LET addr == GetOrNull(jsonld, "address")
    IN  IF addr.t # "dict" THEN JNull
        ELSE [t |-> "join", sep |-> ", ",
              parts |-> SelectSeq([i \in 1..4 |-> GetOrNull(addr, AddressParts[i])],
                                  Truthy)]

\* lines 662-666; seed.get("gps_coordinates", {}) must have a .get
SeedCoordinates(cand) ==
    IF HasKey(cand, "gps_coordinates") THEN Get(cand, "gps_coordinates")
    ELSE JDict(<<>>)
Coordinate(cand, jsonld, k) ==
    LET geo == IF GetOrNull(jsonld, "geo").t = "dict"
               THEN GetOrNull(jsonld, "geo") ELSE JDict(<<>>)
    IN  Or(GetOrNull(geo, k), GetOrNull(SeedCoordinates(cand), k))

\* lines 669-674
TypesOf(jsonld) ==
    LET jt == GetOrNull(jsonld, "@type")
    IN  IF IsStr(jt) THEN <<jt>>
        ELSE IF jt.t = "list"
             THEN SelectSeq(jt.items,
                            LAMBDA x : x \notin {JStr("LocalBusiness"),
                                                 JStr("Place")})
        ELSE <<>>

\* line 676 on the type names of the model: lower case, runs of other
\* characters turned into "_"
TypeId(ty) ==
    CASE ty = JStr("Restaurant")    -> JStr("restaurant")
      [] ty = JStr("LocalBusiness") -> JStr("localbusiness")
      [] ty = JStr("Place")         -> JStr("place")
      [] ty = JStr("Store")         -> JStr("store")
      [] ty = JStr("Organization")  -> JStr("organization")
      [] OTHER                      -> ty
TypeIdsOf(jsonld) ==
    LET ts == SelectSeq(TypesOf(jsonld), Truthy)
    IN  [i \in 1..Len(ts) |-> TypeId(ts[i])]

\* line 684: item.get("dayOfWeek", "").split("/")[-1].lower()
DayOf(item) ==
    LET d == IF HasKey(item, "dayOfWeek") THEN Get(item, "dayOfWeek")
             ELSE JText(<<>>)
    IN  IF ~IsStr(d) THEN Raise("AttributeError")
        ELSE Value(JText(LowerStr(From(Chars(d), RFind(Chars(d), "/") + 1))))

\* lines 681-689: the loop over the opening hours, building the dict
RECURSIVE HoursFrom(_, _)
HoursFrom(items, hours) ==
    IF items = <<>> THEN Value(hours)
    ELSE LET item == Head(items)
         IN  IF item.t # "dict" THEN HoursFrom(Tail(items), hours)
             ELSE IF DayOf(item).o = "raise" THEN DayOf(item)
             ELSE IF /\ Truthy(DayOf(item).value)
                     /\ Truthy(GetOrNull(item, "opens"))
                     /\ Truthy(GetOrNull(item, "closes"))
                  THEN HoursFrom(Tail(items),
                           Put(hours, DayOf(item).value.cs,
                               [t |-> "span",
                                opens  |-> GetOrNull(item, "opens"),
                                closes |-> GetOrNull(item, "closes")]))
             ELSE HoursFrom(Tail(items), hours)

\* lines 678-689 and 727
OperatingHours(jsonld) ==
    LET spec == GetOrNull(jsonld, "openingHoursSpecification")
    IN  IF spec.t # "list" THEN Value(JNull)
        ELSE IF HoursFrom(spec.items, <<>>).o = "raise"
             THEN HoursFrom(spec.items, <<>>)
        ELSE IF HoursFrom(spec.items, <<>>).value = <<>> THEN Value(JNull)
        ELSE Value(JDict(HoursFrom(spec.items, <<>>).value))

\* lines 699-706: the link built around quote(data_id)
DataLink(data_id, engine) ==
    IF ~Truthy(data_id) THEN Value(JNull)
    ELSE IF ~IsStr(data_id) THEN Raise("TypeError")
    ELSE Value(JText(<<"https://serpapi.com/search.json?data_id=">>
                     \o Flatten(QuoteUrl(Chars(data_id)))
                     \o <<"&engine=", engine, "&hl=en">>))

\* lines 708-711
PlaceIdSearch(place_id) ==
    IF ~Truthy(place_id) THEN JNull
    ELSE [t |-> "fstring",
          text |-> "https://serpapi.com/search.json?engine=google_maps&google_domain=google.com&hl=en&place_id=",
          arg  |-> place_id]

OrNull(xs)    == IF xs = <<>> THEN JNull ELSE JList(xs)
FirstOrNull(xs) == IF xs = <<>> THEN JNull ELSE Head(xs)

\* the first exception among the outcomes, in source order
FirstRaise(outcomes) ==
    LET hits == {i \in 1..Len(outcomes) : outcomes[i].o = "raise"}
    IN  IF hits = {} THEN Value(JNull) ELSE outcomes[SetMin(hits)]

\* lines 636-736: the record built from the seed and the JSON-LD object
EnrichedRecord(cand, jsonld) ==
    LET data_id  == GetOrNull(cand, "data_id")
        place_id == GetOrNull(cand, "place_id")
        \* lines 715-716: `float(rating) if rating else None`
        rating   == IF Truthy(RawRating(jsonld, "ratingValue"))
                    THEN float(RawRating(jsonld, "ratingValue"))
                    ELSE Value(JNull)
        reviews  == IF Truthy(RawRating(jsonld, "reviewCount"))
                    THEN int(RawRating(jsonld, "reviewCount"))
                    ELSE Value(JNull)
        hours    == OperatingHours(jsonld)
        rlink    == DataLink(data_id, "google_maps_reviews")
        plink    == DataLink(data_id, "google_maps_photos")
        coords   == IF SeedCoordinates(cand).t = "dict" THEN Value(JNull)
                    ELSE Raise("AttributeError")
        raised   == FirstRaise(<<coords, hours, rlink, plink, rating, reviews>>)
    IN  IF raised.o = "raise" THEN raised
        ELSE Value(JDict(<<
            <<"position", GetOrNull(cand, "position")>>,
            <<"title", Or(GetOrNull(cand, "title"), GetOrNull(jsonld, "name"))>>,
            <<"place_id", place_id>>,
            <<"data_id", data_id>>,
            <<"data_cid", GetOrNull(cand, "data_cid")>>,
            <<"reviews_link", rlink.value>>,
            <<"photos_link", plink.value>>,
            <<"gps_coordinates",
              JDict(<< <<"latitude", Coordinate(cand, jsonld, "latitude")>>,
                       <<"longitude", Coordinate(cand, jsonld, "longitude")>> >>)>>,
            <<"place_id_search", PlaceIdSearch(place_id)>>,
            <<"provider_id", GetOrNull(cand, "provider_id")>>,
            <<"rating", rating.value>>,
            <<"reviews", reviews.value>>,
            <<"price", GetOrNull(jsonld, "priceRange")>>,
            <<"type", FirstOrNull(TypesOf(jsonld))>>,
            <<"types", OrNull(TypesOf(jsonld))>>,
            <<"type_id", FirstOrNull(TypeIdsOf(jsonld))>>,
            <<"type_ids", OrNull(TypeIdsOf(jsonld))>>,
            <<"address", AddressOf(jsonld)>>,
            <<"open_state", JNull>>,
            <<"hours", JNull>>,
            <<"operating_hours", hours.value>>,
            <<"phone", GetOrNull(jsonld, "telephone")>>,
            <<"website", GetOrNull(jsonld, "url")>>,
            <<"extensions", JNull>>,
            <<"unsupported_extensions", JNull>>,
            <<"service_options", JNull>>,
            <<"order_online", JNull>>,
            <<"thumbnail", JNull>>,
            <<"serpapi_thumbnail", JNull>> >>))

\* what fetch_page_with_playwright returns (line 368): the content and the
\* page
Html(bs)     == [t |-> "html", blocks |-> bs]
Rendered(bs) == [t |-> "tuple", content |-> Html(bs), page |-> "page"]

\* mutant: the caller unpacks the pair and keeps the content
HtmlContentUnpacked(got) == got.content

\* line 628: html_content = await fetch_page_with_playwright(...), the
\* whole return value
HtmlContent(got) == got

\* mutant: the scan reads the content out of a pair
ScriptBlocksLenient(place_html) ==
    IF place_html.t = "tuple" THEN Value(place_html.content.blocks)
    ELSE Value(place_html.blocks)

\* lines 745-749: re.findall over place_html, which must be a str
ScriptBlocks(place_html) ==
    IF place_html.t # "html" THEN Raise("TypeError")
    ELSE Value(place_html.blocks)

\* lines 751-770 as a function of the blocks
RECURSIVE ParseBlocks(_, _)
ParseBlocks(bs, bst) ==
    IF bs = <<>> THEN Value(bst)
    ELSE LET b == Head(bs)
         IN  IF b.kind \in {"blank", "invalid"} THEN ParseBlocks(Tail(bs), bst)
             ELSE IF ScanBlock(b.value).o = "raise" THEN Raise("TypeError")
             ELSE IF ScanBlock(b.value).o = "return"
                  THEN Value(ScanBlock(b.value).value)
             ELSE ParseBlocks(Tail(bs),
                      IF b.value.t = "dict" /\ bst = EmptyObject
                      THEN b.value ELSE bst)

parse_jsonld(place_html) ==
    IF ScriptBlocks(place_html).o = "raise" THEN ScriptBlocks(place_html)
    ELSE ParseBlocks(ScriptBlocks(place_html).value, EmptyObject)

\* lines 636-736: from the value bound at line 628 to the record
Enrich(s, html) ==
    IF parse_jsonld(html).o = "raise" THEN parse_jsonld(html)
    ELSE EnrichedRecord(s, parse_jsonld(html).value)

\* mutant: no except clause
Uncaught(outcome, s) == outcome

\* lines 738-740: except Exception: return seed
Caught(outcome, s) == IF outcome.o = "raise" THEN Value(s) ELSE outcome

MapsUrlCafe == JStr("https://www.google.com/maps/place/Cafe+X")
MapsUrlBar  == JStr("https://www.google.com/maps/place/Bar/data=!1s0x1:0x2")

\* a candidate as extract_places_from_page builds it (lines 443-450)
SeedListed ==
    JDict(<< <<"position", JNum(1)>>, <<"title", JStr("Cafe X")>>,
             <<"rating", JFloat(4500)>>, <<"website", JNull>>,
             <<"image_url", JNull>>, <<"maps_url", MapsUrlCafe>> >>)
\* a candidate as extract_places_from_html builds it (lines 497-507)
SeedIdentified ==
    JDict(<< <<"position", JNum(2)>>, <<"title", JStr("Bar")>>,
             <<"place_id", JStr("ChIJa")>>,
             <<"data_id", JText(<<"0","x","1",":","0","x","2">>)>>,
             <<"data_cid", JStr("2")>>,
             <<"gps_coordinates",
               JDict(<< <<"latitude", JFloat(40700)>>,
                        <<"longitude", JFloat(-74000)>> >>)>>,
             <<"maps_url", MapsUrlBar>> >>)
SeedUntitled ==
    JDict(<< <<"position", JNum(3)>>, <<"title", JNull>>,
             <<"maps_url", MapsUrlCafe>> >>)
SeedNoUrl ==
    JDict(<< <<"position", JNum(4)>>, <<"title", JStr("Y")>> >>)
\* gps_coordinates present and None
SeedNullGps ==
    JDict(<< <<"position", JNum(5)>>, <<"gps_coordinates", JNull>>,
             <<"maps_url", MapsUrlBar>> >>)

Seeds == {SeedListed, SeedIdentified, SeedUntitled, SeedNoUrl, SeedNullGps}

Rating(value, count) ==
    JDict(<< <<"ratingValue", value>>, <<"reviewCount", count>> >>)

Monday == <<"h","t","t","p","s",":","/","/","s","c","h","e","m","a",".",
            "o","r","g","/","M","o","n","d","a","y">>

\* {"@type": "Restaurant", "aggregateRating": {"ratingValue": "4.2",
\*  "reviewCount": "137"}, ...}
LdRated ==
    JDict(<< <<"@type", JStr("Restaurant")>>, <<"name", JStr("R")>>,
             <<"aggregateRating",
               Rating(JText(<<"4",".","2">>), JText(<<"1","3","7">>))>>,
             <<"telephone", JStr("+1 555")>>, <<"url", JStr("https://r.example")>>,
             <<"priceRange", JStr("$$")>>,
             <<"address",
               JDict(<< <<"streetAddress", JStr("1 Main St")>>,
                        <<"addressRegion", JStr("NY")>> >>)>>,
             <<"geo", JDict(<< <<"latitude", JFloat(40800)>> >>)>>,
             <<"openingHoursSpecification",
               JList(<< JDict(<< <<"dayOfWeek", JText(Monday)>>,
                                 <<"opens", JStr("09:00")>>,
                                 <<"closes", JStr("17:00")>> >>),
                        JDict(<< <<"dayOfWeek", JText(<<"S","u","n">>)>>,
                                 <<"opens", JStr("10:00")>> >>) >>)>> >>)
\* the same with JSON numbers
LdRatedNumbers ==
    JDict(<< <<"@type", JStr("Store")>>,
             <<"aggregateRating", Rating(JFloat(4200), JNum(137))>> >>)
\* ratingValue "abc"
LdBadRating ==
    JDict(<< <<"@type", JStr("Restaurant")>>, <<"name", JStr("R")>>,
             <<"aggregateRating",
               Rating(JText(<<"a","b","c">>), JText(<<"1","3","7">>))>> >>)
\* reviewCount "1,024"
LdBadReviews ==
    JDict(<< <<"@type", JStr("Restaurant")>>, <<"name", JStr("R")>>,
             <<"aggregateRating",
               Rating(JText(<<"4",".","2">>),
                      JText(<<"1",",","0","2","4">>))>> >>)
\* dayOfWeek given as a list
LdDayList ==
    JDict(<< <<"@type", JStr("Place")>>,
             <<"openingHoursSpecification",
               JList(<< JDict(<< <<"dayOfWeek", JList(<<JText(Monday)>>)>> >>) >>)>> >>)

DetailBlocks ==
    {<<>>,
     <<JsonBlock(LdRated)>>,
     <<JsonBlock(LdRatedNumbers)>>,
     <<JsonBlock(LdBadRating)>>,
     <<JsonBlock(LdBadReviews)>>,
     <<JsonBlock(LdDayList)>>,
     <<InvalidBlock>>,
     <<JsonBlock(LdUntyped), JsonBlock(JList(<<LdOrganization, LdRated>>))>>,
     <<JsonBlock(LdListTyped)>>}

\* how the renderer ends for a detail page: the launch raises (line 339),
\* goto raises (line 344), goto returns no response (lines 350-351), or
\* the content comes back
NavOutcomes == {"launch", "goto", "noresponse", "ok"}
Renderings ==
    {[nav |-> "ok", blocks |-> bs] : bs \in DetailBlocks}
        \cup {[nav |-> n, blocks |-> <<>>] : n \in NavOutcomes \ {"ok"}}
NoRendering == [nav |-> "none", blocks |-> <<>>]

DetailInit ==
    /\ seed = JNull
    /\ detailPage = NoRendering
    /\ fetched = JNull
    /\ detailResult = JNull
    /\ detailError = "none"
    /\ detailCalls = 0
    /\ detailFailures = 0
    /\ detailPc = "idle"

DetailIdle ==
    /\ seed = JNull
    /\ detailPage = NoRendering
    /\ fetched = JNull
    /\ detailResult = JNull
    /\ detailError = "none"
    /\ detailCalls = 0
    /\ detailFailures = 0
    /\ detailPc = "idle"

\* the caller passes a candidate; `r` is what the renderer will do
DetailCall(s, r) ==
    /\ detailPc \in {"idle", "returned"}
    /\ detailCalls < MaxDetailCalls
    /\ seed' = s
    /\ detailPage' = r
    /\ fetched' = JNull
    /\ detailResult' = JNull
    /\ detailError' = "none"
    /\ detailCalls' = detailCalls + 1
    /\ detailPc' = "called"
    /\ UNCHANGED detailFailures
    /\ UNCHANGED notDetail

\* lines 620-622: no maps_url, the seed goes back
DetailNoUrl ==
    /\ detailPc = "called"
    /\ ~Truthy(GetOrNull(seed, "maps_url"))
    /\ detailResult' = seed
    /\ detailPc' = "returned"
    /\ UNCHANGED <<seed, detailPage, fetched, detailError, detailCalls,
                   detailFailures>>
    /\ UNCHANGED notDetail

\* line 624: one call of next_proxy, with no other caller of the pool
DetailProxy ==
    /\ detailPc = "called"
    /\ Truthy(GetOrNull(seed, "maps_url"))
    /\ idx' = IF poolSize = 0 THEN idx ELSE AdvanceCursor(idx)
    /\ detailPc' = "fetch"
    /\ UNCHANGED <<seed, detailPage, fetched, detailResult, detailError,
                   detailCalls, detailFailures>>
    /\ UNCHANGED <<poolSize, lockHolder, waiters, pc, key, proxy, calls,
                   reads, picks, returned, cancelLog>>
    /\ UNCHANGED <<keyVars, loadVars, htmlVars, pageVars, dataVars, ldVars,
                   runVars>>

\* the call ends with `outcome`
DetailEnd(outcome) ==
    IF outcome.o = "raise"
    THEN /\ detailPc' = "raised"
         /\ detailError' = outcome.exc
         /\ detailFailures' = detailFailures + 1
         /\ UNCHANGED detailResult
    ELSE /\ detailPc' = "returned"
         /\ detailResult' = outcome.value
         /\ UNCHANGED <<detailError, detailFailures>>

\* lines 627-634 and 738-740: the renderer raises and the seed goes back,
\* or its return value is bound
DetailFetch ==
    /\ detailPc = "fetch"
    /\ IF detailPage.nav # "ok"
       THEN /\ IF Caught(Raise("Error"), seed).o = "raise"
               THEN DetailEnd(Raise("Error"))
               ELSE /\ detailPc' = "returned"
                    /\ detailResult' = Caught(Raise("Error"), seed).value
                    /\ detailError' = "Error"
                    /\ detailFailures' = detailFailures + 1
            /\ UNCHANGED fetched
       ELSE /\ fetched' = HtmlContent(Rendered(detailPage.blocks))
            /\ detailPc' = "parse"
            /\ UNCHANGED <<detailResult, detailError, detailFailures>>
    /\ UNCHANGED <<seed, detailPage, detailCalls>>
    /\ UNCHANGED notDetail

\* lines 636-740: parse, build the record, return it; any exception on the
\* way gives the seed back
DetailEnrich ==
    /\ detailPc = "parse"
    /\ LET outcome == Enrich(seed, fetched)
       IN  IF outcome.o = "raise"
           THEN IF Caught(outcome, seed).o = "raise"
                THEN DetailEnd(outcome)
                ELSE /\ detailPc' = "returned"
                     /\ detailResult' = Caught(outcome, seed).value
                     /\ detailError' = outcome.exc
                     /\ detailFailures' = detailFailures + 1
           ELSE DetailEnd(outcome)
    /\ UNCHANGED <<seed, detailPage, fetched, detailCalls>>
    /\ UNCHANGED notDetail

DetailNext ==
    \/ \E s \in Seeds, r \in Renderings : DetailCall(s, r)
    \/ DetailNoUrl
    \/ DetailProxy
    \/ DetailFetch
    \/ DetailEnrich

(***************************************************************************)
(* run_simple, src/scraper.py:115-182, with scrape_query,                  *)
(* scrape_search_results and fetch_page_with_playwright,                   *)
(* src/maps_scraper.py:773-810, 567-610 and 324-368                        *)
(***************************************************************************)
\* the lists of queries: q1, q2, q1, ... of every length; a query may come
\* twice in a list
QueryLists ==
    {[i \in 1..n |-> IF i % 2 = 1 THEN "q1" ELSE "q2"] : n \in 0..MaxQueries}

\* mutant: two acquisitions for one query
LoneNextProxyTwice(cursor, K, k) ==
    IF K = 0 THEN [proxy |-> NoProxy, idx |-> cursor]
    ELSE [proxy |-> SelectIndex(cursor, K, k),
          idx   |-> AdvanceCursor(AdvanceCursor(cursor))]

\* maps_scraper.py lines 90-105: the whole of next_proxy when no other task
\* calls the pool
LoneNextProxy(cursor, K, k) ==
    IF K = 0 THEN [proxy |-> NoProxy, idx |-> cursor]
    ELSE [proxy |-> SelectIndex(cursor, K, k),
          idx   |-> AdvanceCursor(cursor)]

\* mutant: an exception of scrape_query leaves run_simple
AfterErrorAbort == "aborted"

\* scraper.py lines 178-179: `except Exception as e`, the query has failed
\* and the loop goes on
AfterError == "failed"

\* mutant: a goto that raises is tried again
AfterGotoRetry(res) ==
    IF res = "ok" THEN "content" ELSE IF res = "raise" THEN "goto"
    ELSE AfterError

\* maps_scraper.py lines 344-351: goto raises, or returns no response and
\* line 351 raises, or the page is there
AfterGoto(res) == IF res = "ok" THEN "content" ELSE AfterError

\* the state of the orchestrator a step of the query belongs to
OrchState(ph) ==
    CASE ph = "idle"                            -> "Idle"
      [] ph \in {"launch", "goto", "content"}   -> "Rendering-Search"
      [] ph \in {"extract", "close"}            -> "Extracting"
      [] ph = "done"                            -> "Done"
      [] OTHER                                  -> "Failed"

\* the states the query has been through, with the one it enters
Visit(tr, ph) ==
    IF tr # <<>> /\ tr[Len(tr)] = OrchState(ph) THEN tr
    ELSE Append(tr, OrchState(ph))

RunInit ==
    /\ queries \in QueryLists
    /\ qi = 1
    /\ phase = "idle"
    /\ runPc = "loop"
    /\ runProxy = NoProxy
    /\ attempts = <<>>
    /\ rendered = <<>>
    /\ renders = 0
    /\ candidates = 0
    /\ trace = <<"Idle">>
    /\ openBrowsers = {}
    /\ saved = {}
    /\ failures = {}

RunIdle ==
    /\ queries = <<>>
    /\ qi = 1
    /\ phase = "idle"
    /\ runPc = "loop"
    /\ runProxy = NoProxy
    /\ attempts = <<>>
    /\ rendered = <<>>
    /\ renders = 0
    /\ candidates = 0
    /\ trace = <<"Idle">>
    /\ openBrowsers = {}
    /\ saved = {}
    /\ failures = {}

\* scraper.py line 153, maps_scraper.py lines 800 and 590: scrape_query is
\* called for the query and scrape_search_results asks the pool for a proxy
ScrapeQuery ==
    /\ runPc = "loop"
    /\ phase = "idle"
    /\ qi <= Len(queries)
    /\ attempts' = Append(attempts, qi)
    /\ idx' = LoneNextProxy(idx, poolSize, queries[qi]).idx
    /\ runProxy' = LoneNextProxy(idx, poolSize, queries[qi]).proxy
    /\ phase' = "launch"
    /\ trace' = Visit(trace, "launch")
    /\ UNCHANGED <<queries, qi, runPc, rendered, renders, candidates,
                   openBrowsers, saved>>
    /\ UNCHANGED failures
    /\ UNCHANGED <<poolSize, lockHolder, waiters, pc, key, proxy, calls,
                   reads, picks, returned, cancelLog>>
    /\ UNCHANGED <<keyVars, loadVars, htmlVars, pageVars, dataVars, ldVars,
                   detailVars>>

\* maps_scraper.py line 339, create_browser_context: the launch raises; or
\* the browser is launched and new_context, add_cookies or new_page raises;
\* or browser and page are there
Launch(res) ==
    /\ phase = "launch"
    /\ openBrowsers' = IF res = "launch" THEN openBrowsers
                       ELSE openBrowsers \cup {qi}
    /\ phase' = IF res = "ok" THEN "goto" ELSE AfterError
    /\ trace' = Visit(trace, phase')
    /\ UNCHANGED <<queries, qi, runPc, runProxy, attempts, rendered, renders,
                   candidates, saved>>
    /\ failures' = IF phase' \in {"failed", "aborted"}
                   THEN failures \cup {[q |-> qi, at |-> phase]}
                   ELSE failures
    /\ UNCHANGED notRun

\* maps_scraper.py lines 344-351: the navigation to the search page
Goto(res) ==
    /\ phase = "goto"
    /\ renders' = renders + 1
    /\ rendered' = Append(rendered, [q |-> qi, proxy |-> runProxy])
    /\ phase' = AfterGoto(res)
    /\ trace' = Visit(trace, phase')
    /\ UNCHANGED <<queries, qi, runPc, runProxy, attempts, candidates,
                   openBrowsers, saved>>
    /\ failures' = IF phase' \in {"failed", "aborted"}
                   THEN failures \cup {[q |-> qi, at |-> phase]}
                   ELSE failures
    /\ UNCHANGED notRun

\* maps_scraper.py lines 354-368: the wait, the scrolling and page.content()
Content(ok) ==
    /\ phase = "content"
    /\ phase' = IF ok THEN "extract" ELSE AfterError
    /\ trace' = Visit(trace, phase')
    /\ UNCHANGED <<queries, qi, runPc, runProxy, attempts, rendered, renders,
                   candidates, openBrowsers, saved>>
    /\ failures' = IF phase' \in {"failed", "aborted"}
                   THEN failures \cup {[q |-> qi, at |-> phase]}
                   ELSE failures
    /\ UNCHANGED notRun

\* maps_scraper.py line 604: extract_places_from_page returns n places, or
\* its query for the containers (line 377) raises
Extract(ok, n) ==
    /\ phase = "extract"
    /\ candidates' = IF ok THEN n ELSE candidates
    /\ phase' = IF ok THEN "close" ELSE AfterError
    /\ trace' = Visit(trace, phase')
    /\ UNCHANGED <<queries, qi, runPc, runProxy, attempts, rendered, renders,
                   openBrowsers, saved>>
    /\ failures' = IF phase' \in {"failed", "aborted"}
                   THEN failures \cup {[q |-> qi, at |-> phase]}
                   ELSE failures
    /\ UNCHANGED notRun

\* maps_scraper.py lines 606-610 and 810: page, context and browser are
\* closed and the places go back to run_simple; a close that raises leaves
\* the browser as it is
Close(ok) ==
    /\ phase = "close"
    /\ openBrowsers' = IF ok THEN openBrowsers \ {qi} ELSE openBrowsers
    /\ phase' = IF ok THEN "done" ELSE AfterError
    /\ trace' = Visit(trace, phase')
    /\ UNCHANGED <<queries, qi, runPc, runProxy, attempts, rendered, renders,
                   candidates, saved>>
    /\ failures' = IF phase' \in {"failed", "aborted"}
                   THEN failures \cup {[q |-> qi, at |-> phase]}
                   ELSE failures
    /\ UNCHANGED notRun

\* scraper.py lines 146 and 164-179: the results are written (an error of
\* the write is caught like any other) and the loop takes the next query
NextQuery(written) ==
    /\ runPc = "loop"
    /\ phase \in {"done", "failed"}
    /\ saved' = IF phase = "done" /\ written THEN saved \cup {qi} ELSE saved
    /\ qi' = qi + 1
    /\ phase' = "idle"
    /\ runProxy' = NoProxy
    /\ renders' = 0
    /\ candidates' = 0
    /\ trace' = <<"Idle">>
    /\ UNCHANGED <<queries, runPc, attempts, rendered, openBrowsers>>
    /\ UNCHANGED failures
    /\ UNCHANGED notRun

\* scraper.py lines 145 and 181-182: the list is through, the block of
\* async_playwright is left and run_simple returns; nothing here closes a
\* browser
RunEnd ==
    /\ runPc = "loop"
    /\ phase = "idle"
    /\ qi > Len(queries)
    /\ runPc' = "done"
    /\ UNCHANGED <<queries, qi, phase, runProxy, attempts, rendered, renders,
                   candidates, trace, openBrowsers, saved>>
    /\ UNCHANGED failures
    /\ UNCHANGED notRun

RunNext ==
    \/ ScrapeQuery
    \/ \E res \in {"ok", "launch", "context"} : Launch(res)
    \/ \E res \in {"ok", "raise", "none"} : Goto(res)
    \/ \E ok \in BOOLEAN : Content(ok)
    \/ \E ok \in BOOLEAN, n \in 0..MaxPlaces : Extract(ok, n)
    \/ \E ok \in BOOLEAN : Close(ok)
    \/ \E written \in BOOLEAN : NextQuery(written)
    \/ RunEnd

(***************************************************************************)
(* Specifications                                                          *)
(***************************************************************************)
InitPool == PoolInit /\ KeyIdle /\ LoadIdle /\ HtmlIdle /\ PageIdle /\ DataIdle /\ LdIdle /\ DetailIdle /\ RunIdle
NextPool == PoolNext
SpecPool == InitPool /\ [][NextPool]_vars

InitKey == PoolInit /\ KeyInit /\ LoadIdle /\ HtmlIdle /\ PageIdle /\ DataIdle /\ LdIdle /\ DetailIdle /\ RunIdle
SpecKey == InitKey /\ [][KeyNext]_vars

InitLoad == PoolIdle /\ KeyIdle /\ LoadInit /\ HtmlIdle /\ PageIdle /\ DataIdle /\ LdIdle /\ DetailIdle /\ RunIdle
SpecLoad == InitLoad /\ [][LoadNext]_vars

InitHtml == PoolIdle /\ KeyIdle /\ LoadIdle /\ HtmlInit /\ PageIdle /\ DataIdle /\ LdIdle /\ DetailIdle /\ RunIdle
SpecHtml == InitHtml /\ [][HtmlNext]_vars

InitPage == PoolIdle /\ KeyIdle /\ LoadIdle /\ HtmlIdle /\ PageInit /\ DataIdle /\ LdIdle /\ DetailIdle /\ RunIdle
SpecPage == InitPage /\ [][PageNext]_vars

InitData == PoolIdle /\ KeyIdle /\ LoadIdle /\ HtmlIdle /\ PageIdle /\ DataInit /\ LdIdle /\ DetailIdle /\ RunIdle
SpecData == InitData /\ [][DataNext]_vars

InitLd == PoolIdle /\ KeyIdle /\ LoadIdle /\ HtmlIdle /\ PageIdle /\ DataIdle
              /\ LdInit /\ DetailIdle /\ RunIdle
SpecLd == InitLd /\ [][LdNext]_vars

InitDetail == PoolInit /\ KeyIdle /\ LoadIdle /\ HtmlIdle /\ PageIdle /\ DataIdle
                  /\ LdIdle /\ DetailInit /\ RunIdle
SpecDetail == InitDetail /\ [][DetailNext]_vars

InitRun == PoolInit /\ KeyIdle /\ LoadIdle /\ HtmlIdle /\ PageIdle /\ DataIdle
               /\ LdIdle /\ DetailIdle /\ RunInit
SpecRun == InitRun /\ [][RunNext]_vars

\* every await of the run returns or raises: the single task is always
\* scheduled again
SpecRunFair == SpecRun /\ WF_vars(RunNext)

(***************************************************************************)
(* Claims                                                                  *)
(***************************************************************************)
InCall(t) ==
    pc[t] \in {"acquire", "wait", "select", "advance", "release", "return"}

Range(s) == {s[i] : i \in 1..Len(s)}

\* C1: round-robin fairness.  On a pool of K >= 1 proxies, after N
\* acquisitions each proxy has been selected N \div K or N \div K + 1 times;
\* and whenever no call is in flight, the N completed calls have returned
\* each proxy N \div K or N \div K + 1 times.
C1_RoundRobinFair ==
    poolSize >= 1 =>
        /\ \A p \in 0..(poolSize - 1) :
              CountOf(picks, p) \in
                  {Len(picks) \div poolSize, Len(picks) \div poolSize + 1}
        /\ (\A t \in Tasks : ~InCall(t)) =>
              \A p \in 0..(poolSize - 1) :
                  CountOf(returned, p) \in
                      {Len(returned) \div poolSize,
                       Len(returned) \div poolSize + 1}

\* three completed calls on a pool of two: one proxy twice, the other once
C1_Witness ==
    /\ poolSize = 2
    /\ \A t \in Tasks : ~InCall(t)
    /\ Len(returned) = 3
    /\ CountOf(returned, 0) = 2
    /\ CountOf(returned, 1) = 1

\* C2: every acquisition is one indivisible step.  The i-th acquisition
\* reads cursor value i-1 (so no two read the same value and the cursor grows
\* by one per acquisition), at most one task is between the read and the
\* release, and for K >= 2 consecutive acquisitions resolve to different
\* proxy indices.
C2_AtomicAcquisition ==
    /\ \A i \in 1..Len(reads) : reads[i] = i - 1
    /\ idx = Len(reads) - (IF \E t \in Tasks : pc[t] = "advance" THEN 1 ELSE 0)
    /\ Cardinality({t \in Tasks : pc[t] \in {"select", "advance", "release"}}) <= 1
    /\ poolSize >= 2 =>
          \A i \in 1..(Len(picks) - 1) : picks[i] # picks[i + 1]

\* a task is queued for the lock while another is between read and write
C2_Witness ==
    /\ poolSize = 2
    /\ Len(reads) >= 2
    /\ \E t, u \in Tasks : pc[t] = "wait" /\ pc[u] = "advance"

\* C3: the key never affects selection.  Two runs of the same pool that have
\* made the same number of calls, whatever keys they passed, have selected
\* the same sequence of proxies and hold the same cursor.
C3_KeyIndependent ==
    Len(runA.keys) = Len(runB.keys) =>
        /\ runA.picks = runB.picks
        /\ runA.idx = runB.idx

\* both runs made three calls and never passed the same key at the same call
C3_Witness ==
    /\ poolSize = 2
    /\ Len(runA.keys) = MaxRunCalls
    /\ Len(runB.keys) = MaxRunCalls
    /\ \A i \in 1..MaxRunCalls : runA.keys[i] # runB.keys[i]

\* C4: a cancellation at a suspension point never corrupts the pool.  The
\* cursor is a count of acquisitions and resolves to a valid index, a
\* cancelled task neither holds the lock nor is queued for it, the lock is
\* held only by a running task inside the critical section, and whenever a
\* task wants the lock some task can take a step towards it.
C4_CancelSafe ==
    /\ idx \in 0..calls
    /\ poolSize >= 1 => SelectIndex(idx, poolSize, NoKey) \in 0..(poolSize - 1)
    /\ \A t \in Tasks :
          pc[t] = "cancelled" => lockHolder # t /\ t \notin Range(waiters)
    /\ lockHolder # NoTask => pc[lockHolder] \in {"select", "advance", "release"}
    /\ \A i \in 1..Len(waiters) : pc[waiters[i]] = "wait"
    /\ (\E t \in Tasks : pc[t] \in {"acquire", "wait"}) =>
          \E u \in Tasks :
              ENABLED (Acquire(u) \/ Granted(u) \/ Select(u) \/ Advance(u)
                         \/ Release(u))

\* a task was cancelled while queued for the lock, and an acquisition that
\* started after the cancellation has completed
C4_Witness ==
    \E i \in 1..Len(cancelLog) :
        /\ cancelLog[i].at = "wait"
        /\ Len(returned) > cancelLog[i].reads + 1
        /\ idx > cancelLog[i].reads + 1
\* what load_proxies must return for a file: the parse of every line that
\* parses, in file order
RECURSIVE ParsedLines(_)
ParsedLines(file) ==
    IF file = <<>> THEN <<>>
    ELSE LET p == parse_proxy_line(Head(file).text)
         IN  (IF p.ok THEN <<p>> ELSE <<>>) \o ParsedLines(Tail(file))

SkippedShapes == {"empty", "comment", "nohost", "noport"}

\* C5: load_proxies returns, in file order, one ProxyConfig per line that
\* parses; an empty line, a comment and a line with no host or no port add
\* nothing; the loop never stops early or raises; no path yields <<>>.
C5_LoadSkipsBadLines ==
    /\ loadPc # "raised"
    /\ ~path.given => proxies = <<>>
    /\ loadPc = "lines" =>
          proxies = ParsedLines(SubSeq(path.lines, 1, linePos - 1))
    /\ (loadPc = "loaded" /\ path.given) =>
          /\ linePos = Len(path.lines) + 1
          /\ proxies = ParsedLines(path.lines)
          /\ \A i \in 1..Len(path.lines) :
                IF path.lines[i].shape \in SkippedShapes
                THEN i \notin Range(origin)
                ELSE Cardinality({k \in 1..Len(origin) : origin[k] = i}) = 1
          /\ \A k \in 1..(Len(origin) - 1) : origin[k] < origin[k + 1]

\* a bad line stands before a good one, and the good one was still loaded
C5_Witness ==
    /\ loadPc = "loaded"
    /\ path.given
    /\ Len(path.lines) = 2
    /\ path.lines[1].shape \in SkippedShapes
    /\ path.lines[2].shape = "a"
    /\ Len(proxies) = 1

\* what follows the last '@' of a URL, or its "://" if it has no '@'
UrlAuthorityTail(url) ==
    IF RFind(url, "@") > 0 THEN From(url, RFind(url, "@") + 1)
    ELSE From(url, Find(url, "/") + 2)

SupportedShapes == {"a", "b", "c"}

SamePlace(h1, h2) ==
    /\ h1.pid # ""
    /\ h1.pid = h2.pid
    /\ h1.slug = h2.slug
    /\ h1.data = h2.data
    /\ h1.query # h2.query

\* C7: anchor-href extraction deduplicates by place identity.  When two hrefs
\* of the page share the place identifier and differ in the query string
\* only, exactly one record is produced for that place.
C7_OneRecordPerPlace ==
    htmlPc = "returned" =>
        \A i, j \in 1..Len(html_content) :
            SamePlace(html_content[i], html_content[j]) =>
                Cardinality({k \in 1..Len(places) :
                    /\ places[k].place_id = Match(html_content[i].pid)
                    /\ places[k].maps_url.data = html_content[i].data}) = 1

\* two hrefs with the same place id, no data id and different query strings
\* were scanned
C7_Witness ==
    /\ htmlPc = "returned"
    /\ Len(html_content) = 2
    /\ html_content[1].pid = "ChIJa"
    /\ html_content[2].pid = "ChIJa"
    /\ html_content[1].data = <<>>
    /\ html_content[2].data = <<>>
    /\ html_content[1].query # html_content[2].query

\* the containers that yield a record when nothing raises: those with a
\* link and an href that no earlier such container has
ErrorFreeProducers(cs) ==
    {i \in 1..Len(cs) :
        /\ cs[i].link
        /\ cs[i].href.found
        /\ \A j \in 1..(i - 1) : ~(cs[j].link /\ cs[j].href = cs[i].href)}

RECURSIVE CountNodes(_, _, _)
RECURSIVE CountIn(_, _, _)
CountIn(xs, depth, ks) ==
    IF xs = <<>> THEN 0
    ELSE CountNodes(Head(xs), depth, ks) + CountIn(Tail(xs), depth, ks)

CountNodes(v, depth, ks) ==
    IF depth > 10 THEN 0
    ELSE IF v.t = "list" THEN CountIn(v.items, depth + 1, ks)
    ELSE IF v.t = "dict"
         THEN (IF \E i \in 1..Len(v.pairs) : v.pairs[i][1] \in ks THEN 1 ELSE 0)
              + CountIn([i \in 1..Len(v.pairs) |-> v.pairs[i][2]], depth + 1, ks)
    ELSE 0

EveryPlaceHasTitle ==
    \A k \in 1..Len(gdPlaces) :
        \E i \in 1..Len(gdPlaces[k]) : gdPlaces[k][i][1] = "title"

\* C9 as claimed: the walk emits one record for each dict node within the
\* depth limit that carries a title, name, place_id or fsq_id key, and every
\* record has a title field.
C9_RecordPerPlaceKeyNode ==
    gdPc = "returned" =>
        /\ Len(gdPlaces) =
              CountNodes(data, 0, {"title", "name", "place_id", "fsq_id"})
        /\ EveryPlaceHasTitle

\* C9 as amended: the walk emits one record for each dict node within the
\* depth limit that carries a title or name key, and none for any other
\* node; every record has a title field.
C9_RecordPerTitledNode ==
    gdPc = "returned" =>
        /\ Len(gdPlaces) = CountNodes(data, 0, {"title", "name"})
        /\ EveryPlaceHasTitle

\* a titled node at depth 10, the last level the walk enters, gave a record
C9_Witness ==
    /\ gdPc = "returned"
    /\ data = NestInLists(JDict(<< <<"title", JStr("Cafe X")>> >>), DepthLimit)
    /\ Len(gdPlaces) = 1

\* the objects of a page in document order: a dict block itself, and the
\* dict items of a list block in list order
RECURSIVE LdObjects(_)
LdObjects(bs) ==
    IF bs = <<>> THEN <<>>
    ELSE LET b == Head(bs)
             own == IF b.kind # "json" THEN <<>>
                    ELSE IF b.value.t = "dict" THEN <<b.value>>
                    ELSE IF b.value.t = "list"
                         THEN SelectSeq(b.value.items, LAMBDA x : x.t = "dict")
                    ELSE <<>>
         IN  own \o LdObjects(Tail(bs))

\* the top-level objects of a page in document order
LdTopObjects(bs) ==
    SelectSeq(bs, LAMBDA b : b.kind = "json" /\ b.value.t = "dict")

HasKnownType(obj) ==
    /\ \E i \in 1..Len(obj.pairs) : obj.pairs[i][1] = "@type"
    /\ \A i \in 1..Len(obj.pairs) :
          obj.pairs[i][1] = "@type" =>
              obj.pairs[i][2] \in {JStr("LocalBusiness"), JStr("Place"),
                                   JStr("Restaurant"), JStr("Store")}

\* what the claim says parse_jsonld returns for a page
LdExpected(bs) ==
    LET typed == SelectSeq(LdObjects(bs), HasKnownType)
        tops  == LdTopObjects(bs)
    IN  IF typed # <<>> THEN Head(typed)
        ELSE IF tops # <<>> THEN Head(tops).value
        ELSE JDict(<<>>)

\* C10: parse_jsonld ends by returning, for every page, the first object in
\* document order whose @type is LocalBusiness, Place, Restaurant or Store;
\* with no such object, the first top-level object parsed; with none, the
\* empty object.
C10_FirstTypedObject ==
    /\ ldPc # "raised"
    /\ ldPc = "returned" => ldResult = LdExpected(blocks)

\* the scan met an object whose @type is a list and ended with a TypeError
C10_Witness ==
    /\ ldPc = "raised"
    /\ blocks[blockPos] = JsonBlock(LdListTyped)

IdentityFields == {"position", "place_id", "data_id", "maps_url"}

\* C11: every record scrape_place_detail returns, whether built from the
\* detail page or handed back after a failure, has the seed's position,
\* place_id, data_id and maps_url.
C11_IdentityKept ==
    detailPc = "returned" =>
        \A k \in IdentityFields :
            GetOrNull(detailResult, k) = GetOrNull(seed, k)

\* a seed with all four identity fields came back after the renderer
\* delivered a page with a Restaurant object
C11_Witness ==
    /\ detailPc = "returned"
    /\ seed = SeedIdentified
    /\ detailPage = [nav |-> "ok", blocks |-> <<JsonBlock(LdRated)>>]
    /\ fetched # JNull

\* the JSON-LD object of the rendered detail page
PageJsonld == ParseBlocks(detailPage.blocks, EmptyObject)

\* the call got a rendered page whose JSON-LD object was found
PageParsed ==
    /\ detailPc = "returned"
    /\ detailPage.nav = "ok"
    /\ PageJsonld.o = "value"

\* the raw ratingValue and reviewCount of that object
PageRatingValue == RawRating(PageJsonld.value, "ratingValue")
PageReviewCount == RawRating(PageJsonld.value, "reviewCount")

\* C12: a ratingValue or reviewCount that is not a number does not make the
\* enricher fail; it returns the enriched record, in which that field is
\* absent and the other one holds its number.
C12_CoercionFailsSoft ==
    /\ detailPc # "raised"
    /\ (/\ PageParsed
        /\ \/ Truthy(PageRatingValue) /\ float(PageRatingValue).o = "raise"
           \/ Truthy(PageReviewCount) /\ int(PageReviewCount).o = "raise")
       => /\ HasKey(detailResult, "rating")
          /\ HasKey(detailResult, "reviews")
          /\ Get(detailResult, "rating") =
                IF Truthy(PageRatingValue) /\ float(PageRatingValue).o = "value"
                THEN float(PageRatingValue).value ELSE JNull
          /\ Get(detailResult, "reviews") =
                IF Truthy(PageReviewCount) /\ int(PageReviewCount).o = "value"
                THEN int(PageReviewCount).value ELSE JNull

\* the page carried ratingValue "abc" and the seed came back as it was
C12_Witness ==
    /\ detailPc = "returned"
    /\ detailPage = [nav |-> "ok", blocks |-> <<JsonBlock(LdBadRating)>>]
    /\ detailResult = seed
    /\ ~HasKey(detailResult, "reviews")

\* what one call returns for its candidate and its rendering when every
\* exception raised on the way ends in the seed
ResultAlone(s, r) ==
    IF ~Truthy(GetOrNull(s, "maps_url")) THEN s
    ELSE IF r.nav # "ok" THEN s
    ELSE IF Enrich(s, HtmlContent(Rendered(r.blocks))).o = "raise" THEN s
    ELSE Enrich(s, HtmlContent(Rendered(r.blocks))).value

\* C13: an exception raised while the detail page is fetched or parsed never
\* leaves scrape_place_detail; the call returns the candidate it was given,
\* and what a call returns depends on its own candidate and page only, not
\* on the failures of the calls before it.
C13_FailureReturnsSeed ==
    /\ detailPc # "raised"
    /\ detailPc = "returned" /\ detailError # "none" => detailResult = seed
    /\ detailPc = "returned" => detailResult = ResultAlone(seed, detailPage)

\* the renderer raised in a call that followed a failed call, and the seed
\* came back
C13_Witness ==
    /\ detailPc = "returned"
    /\ detailPage.nav \in {"launch", "goto", "noresponse"}
    /\ detailFailures = 2
    /\ detailError = "Error"
    /\ detailResult = seed

\* C14: when the renderer delivers a page whose JSON-LD object has a known
\* @type and an aggregateRating with number texts, the returned record has
\* the rating as a float and the reviews as an int.
C14_RatingAndReviews ==
    (/\ PageParsed
     /\ TypeLookup(PageJsonld.value) = "hit"
     /\ PageRatingValue.t = "text" /\ float(PageRatingValue).o = "value"
     /\ PageReviewCount.t = "text" /\ int(PageReviewCount).o = "value")
    => /\ GetOrNull(detailResult, "rating") = float(PageRatingValue).value
       /\ GetOrNull(detailResult, "reviews") = int(PageReviewCount).value

\* the page carried "4.2" and "137" and the seed came back without them
C14_Witness ==
    /\ detailPc = "returned"
    /\ detailPage = [nav |-> "ok", blocks |-> <<JsonBlock(LdRated)>>]
    /\ detailError = "TypeError"
    /\ GetOrNull(detailResult, "reviews") = JNull

\* C15: a detail page without any JSON-LD block gives the seed back: the
\* same fields with the same values.
C15_NoJsonldReturnsSeed ==
    (/\ detailPc = "returned"
     /\ detailPage.nav = "ok"
     /\ detailPage.blocks = <<>>)
    => detailResult = seed

\* the renderer delivered a page without blocks for a seed with a maps_url
C15_Witness ==
    /\ detailPc = "returned"
    /\ detailPage = [nav |-> "ok", blocks |-> <<>>]
    /\ seed = SeedListed
    /\ fetched # JNull
    /\ detailResult = SeedListed

\* the containers that carry the href h
ContainersOf(h) ==
    {i \in 1..Len(containers) :
        containers[i].link /\ containers[i].href = Match(h)}

\* the records returned for the href h
RecordsOf(h) ==
    {k \in 1..Len(pagePlaces) : pagePlaces[k].maps_url.href = h}

\* C18: extract_places_from_page returns exactly one record for every
\* distinct href that has a container whose processing did not raise, and
\* none for the others: the error of one container does not take away the
\* record of a later container with the same href.
C18_OneRecordPerHealthyHref ==
    pagePc = "returned" =>
        \A i \in 1..Len(containers) :
            containers[i].link /\ containers[i].href.found =>
                Cardinality(RecordsOf(containers[i].href.val)) =
                    IF ContainersOf(containers[i].href.val) \subseteq failed
                    THEN 0 ELSE 1

\* the first container raised after its href was read, the second one has
\* the same href and did not raise, and no record was returned
C18_Witness ==
    /\ pagePc = "returned"
    /\ containers = <<CardCafe, CardCafeAgain>>
    /\ failed = {1}
    /\ seen_urls = {CardCafe.href.val}
    /\ pagePlaces = <<>>

\* the place of an orchestrator state in the order of the states
Rank(st) ==
    CASE st = "Idle"             -> 0
      [] st = "Rendering-Search" -> 1
      [] st = "Extracting"       -> 2
      [] st = "Rendering-Detail" -> 3
      [] st = "Enriching"        -> 4
      [] OTHER                   -> 5

\* the states of the query so far follow the order and none comes twice
InOrder(tr) == \A i \in 1..(Len(tr) - 1) : Rank(tr[i]) < Rank(tr[i + 1])

\* C16 as stated: a query goes through Idle, Rendering-Search, Extracting,
\* then Rendering-Detail and Enriching for its candidates, then Done, never
\* back to an earlier state, and its search page is rendered at most once.
C16_StatesWithDetail ==
    /\ InOrder(trace)
    /\ renders <= 1
    /\ phase = "done" /\ candidates > 0 =>
          \E i, j \in 1..Len(trace) :
              /\ i < j
              /\ trace[i] = "Rendering-Detail"
              /\ trace[j] = "Enriching"

\* C16, amended: a query goes through Idle, Rendering-Search, Extracting
\* and Done in this order, or ends as failed when a step raises; it enters
\* neither Rendering-Detail nor Enriching, never goes back to an earlier
\* state, and its search page is rendered at most once.
C16_StatesInOrder ==
    /\ InOrder(trace)
    /\ renders <= 1
    /\ \A i \in 1..Len(trace) :
          trace[i] \in {"Idle", "Rendering-Search", "Extracting", "Done",
                        "Failed"}
    /\ trace[Len(trace)] = OrchState(phase)
    /\ phase = "done" =>
          trace = <<"Idle", "Rendering-Search", "Extracting", "Done">>

\* a query with two candidates is done after one rendering
C16_Witness ==
    /\ phase = "done"
    /\ candidates = 2
    /\ renders = 1
    /\ trace = <<"Idle", "Rendering-Search", "Extracting", "Done">>

\* the queries attempted so far are 1, 2, ... in this order, each once, up
\* to the query the loop stands at
AttemptsInOrder ==
    /\ attempts = [i \in 1..Len(attempts) |-> i]
    /\ Len(attempts) = IF phase = "idle" THEN qi - 1 ELSE qi
    /\ phase # "aborted"
    /\ runPc = "done" => Len(attempts) = Len(queries)

\* C17: a query whose rendering fails does not stop the run: every query of
\* the list is attempted exactly once, in list order, and run_simple
\* reaches its end.
C17_EveryQueryAttempted == []AttemptsInOrder /\ <>(runPc = "done")

\* the rendering of the first query failed and the run went through all
\* three queries to its end
C17_Witness ==
    /\ runPc = "done"
    /\ attempts = <<1, 2, 3>>
    /\ [q |-> 1, at |-> "goto"] \in failures
    /\ 3 \in saved

\* C19: with K >= 1 proxies every call of scrape_query makes one
\* acquisition, before its rendering starts and whatever the query's end:
\* the cursor counts the queries attempted, query i is rendered through
\* proxy (i - 1) mod K, and the cursor is n when the run is over.
C19_OneAcquisitionPerQuery ==
    poolSize >= 1 =>
        /\ idx = Len(attempts)
        /\ phase \notin {"idle"} => runProxy = (qi - 1) % poolSize
        /\ \A k \in 1..Len(rendered) :
              rendered[k].proxy = (rendered[k].q - 1) % poolSize
        /\ runPc = "done" => idx = Len(queries)

\* three queries went through two proxies, the second query failed
C19_Witness ==
    /\ runPc = "done"
    /\ poolSize = 2
    /\ Len(queries) = 3
    /\ idx = 3
    /\ \E f \in failures : f.q = 2
    /\ rendered = <<[q |-> 1, proxy |-> 0], [q |-> 2, proxy |-> 1],
                    [q |-> 3, proxy |-> 0]>>

\* C20: no browser launched for a query is open when run_simple takes the
\* next query or when the run is over.
C20_BrowsersClosed ==
    (phase = "idle" \/ runPc = "done") => openBrowsers = {}

\* the navigation of the first query raised and the loop stands at the
\* second query with the first query's browser open
C20_Witness ==
    /\ phase = "idle"
    /\ qi = 2
    /\ [q |-> 1, at |-> "goto"] \in failures
    /\ openBrowsers = {1}

====
